---- MODULE Spec2Model ----
(***************************************************************************)
(* Document Fidelity Pipeline of Agentic-Resume-Intelligence:              *)
(*   - the text normalizer   (tools/lib/utils.py, tools/fidelity_auditor)  *)
(*   - the markup escaper    (tools/importer_engine.py, tools/lib/utils)   *)
(*   - the template renderer (run_engine of importer_engine/tex_renderer)  *)
(*   - the fidelity auditor  (tools/fidelity_auditor.py)                   *)
(*   - the path guards, the geometry and DOCX extraction, the compilation  *)
(*   - tex_renderer.run_engine step by step (tools/tex_renderer.py)        *)
(*   - the container front end run_ari (tools/ari.py)                      *)
(*   - two compile_latex runs at once (tools/compile_latex.py)             *)
(*                                                                         *)
(* A Python str is a sequence of one-character strings.  Code points that  *)
(* are not ASCII are written as named characters: "BULLET" (U+2022),       *)
(* "LSQUO" "RSQUO" "LDQUO" "RDQUO" (U+2018/19/1C/1D), "EMDASH" "ENDASH"    *)
(* (U+2014/13), "LIG_FF" "LIG_FI" "LIG_FL" "LIG_FFI" "LIG_FFL"             *)
(* (U+FB00..FB04), and the white space "SP" "TAB" "NL".                    *)
(* A Python value is a tagged record: PyNone, PyStr(s), PyInt(n),          *)
(* PyList(xs), PyDict(f).                                                  *)
(***************************************************************************)
EXTENDS Integers, Sequences, FiniteSets, TLC

VARIABLES
    nIn,        \* normalizer: the input value
    nWhich,     \* normalizer: which copy is called ("auditor" | "utils")
    nOut,       \* normalizer: the outputs of the successive applications
    eIn,        \* escaper: the input value
    eWhich,     \* escaper: which copy is called ("engine" | "utils")
    eOut,       \* escaper: the outputs of the successive applications
    rData,      \* renderer: the payload object d of the data file
    rTemplate,  \* renderer: the template, a sequence of segments
    rWhich,     \* renderer: which engine runs ("importer" | "tex")
    rDirect,    \* renderer: the run on d itself (<<>> until it has run)
    rWrapped,   \* renderer: the run on {"resume": d} (<<>> until it has run)
    aSource,    \* auditor: source_data, the object of the source JSON
    aPdf,       \* auditor: the rendered PDF, a sequence of pages of lines
    aReport,    \* auditor: <<report>> once audit has returned one
    aRaised,    \* auditor: the exception audit raised ("" for none)
    gPath,      \* guard: the path string given ([abs, parts])
    gTool,      \* guard: "audit" | "validate_master_path"
    gPc,        \* guard: "start" | "done"
    gWarned,    \* guard: the warning was written to stderr
    gOpened,    \* guard: the file at the path was opened
    gRaised,    \* guard: the exception raised ("" for none)
    gOut,       \* guard: <<report>> or <<resolved path>> once returned
    lDoc,       \* geometry: the PDF ([pages, failAt])
    lTol,       \* geometry: y_tolerance
    lOut,       \* geometry: <<result>> once returned
    cWhich,     \* compile: which copy runs ("compile_latex" | "compile_resume")
    cEnv,       \* compile: where the renderer is run
    cLaunch,    \* compile: whether starting the renderer raises
    cHang,      \* compile: the renderer never exits
    cFiles,     \* compile: the files of the job in work_dir
    cWritten,   \* compile: the files the renderer has written
    cExit,      \* compile: the renderer's return code (NoExit while it runs)
    cPc,        \* compile: "start" | "running" | "returned"
    cRet,       \* compile: the value returned
    dDoc,       \* docx: the document ([body, readable])
    dOut,       \* docx: <<result>> once returned
    tPath,      \* tex_renderer: the data path given ([abs, parts])
    tData,      \* tex_renderer: the object the JSON files hold
    tTemplate,  \* tex_renderer: <<template>>, <<>> when the file is missing
    tOld,       \* tex_renderer: the output file before the run (<<>>: none)
    tOutFile,   \* tex_renderer: the output file (<<>>: none, <<text>>)
    tPc,        \* tex_renderer: where run_engine stands
    tTrace,     \* tex_renderer: what run_engine has done so far, in order
    tRaised,    \* tex_renderer: the exception raised ("" for none)
    tExit,      \* tex_renderer: the code given to sys.exit (NoExit: none)
    iArgs,      \* ari: sys.argv[1:], a sequence of strings
    iPc,        \* ari: where run_ari stands
    iTrace,     \* ari: the commands launched and the checks passed, in order
    iLogged,    \* ari: the events appended to logs/security.audit.log
    iExit,      \* ari: the exit code of run_ari (NoExit while it runs)
    pJob,       \* concurrent compile: the (directory, job name) of each run
    pFiles0,    \* concurrent compile: the files before the runs
    pFiles,     \* concurrent compile: the files of the file system
    pRun        \* concurrent compile: the state of each compile_latex run

vars == <<nIn, nWhich, nOut, eIn, eWhich, eOut,
          rData, rTemplate, rWhich, rDirect, rWrapped,
          aSource, aPdf, aReport, aRaised,
          gPath, gTool, gPc, gWarned, gOpened, gRaised, gOut,
          lDoc, lTol, lOut,
          cWhich, cEnv, cLaunch, cHang, cFiles, cWritten, cExit, cPc, cRet,
          dDoc, dOut,
          tPath, tData, tTemplate, tOld, tOutFile, tPc, tTrace, tRaised, tExit,
          iArgs, iPc, iTrace, iLogged, iExit,
          pJob, pFiles0, pFiles, pRun>>

normVars == <<nIn, nWhich, nOut>>
escVars == <<eIn, eWhich, eOut>>
renderVars == <<rData, rTemplate, rWhich, rDirect, rWrapped>>
auditVars == <<aSource, aPdf, aReport, aRaised>>
guardVars == <<gPath, gTool, gPc, gWarned, gOpened, gRaised, gOut>>
layoutVars == <<lDoc, lTol, lOut>>
compileVars == <<cWhich, cEnv, cLaunch, cHang, cFiles, cWritten, cExit, cPc, cRet>>
docxVars == <<dDoc, dOut>>
texVars == <<tPath, tData, tTemplate, tOld, tOutFile, tPc, tTrace, tRaised, tExit>>
ariVars == <<iArgs, iPc, iTrace, iLogged, iExit>>
parVars == <<pJob, pFiles0, pFiles, pRun>>

\* ------------------------------------------------------------ Python values

PyNone == [t |-> "none"]
PyStr(s) == [t |-> "str", s |-> s]
PyInt(n) == [t |-> "int", n |-> n]
PyList(xs) == [t |-> "list", xs |-> xs]
PyDict(f) == [t |-> "dict", f |-> f]

\* Python truthiness: `if not val`
Falsy(v) ==
    \/ v.t = "none"
    \/ v.t = "str" /\ v.s = <<>>
    \/ v.t = "int" /\ v.n = 0
    \/ v.t = "list" /\ v.xs = <<>>
    \/ v.t = "dict" /\ DOMAIN v.f = {}

\* ------------------------------------------------------------ str helpers

\* All sequences over S of length at most n.
SeqsUpTo(S, n) == UNION {[1..k -> S] : k \in 0..n}

\* "".join(ss), joined by halves
RECURSIVE Concat(_)
Concat(ss) ==
    IF ss = <<>> THEN <<>>
    ELSE IF Len(ss) = 1 THEN ss[1]
    ELSE LET m == Len(ss) \div 2
         IN  Concat(SubSeq(ss, 1, m)) \o Concat(SubSeq(ss, m + 1, Len(ss)))

\* str.replace(pat, rep): left to right, non-overlapping, pat non-empty.
RECURSIVE Replace(_, _, _)
Replace(s, pat, rep) ==
    LET hits == {i \in 1..(Len(s) - Len(pat) + 1) :
                     SubSeq(s, i, i + Len(pat) - 1) = pat}
    IN  IF hits = {} THEN s
        ELSE LET i == CHOOSE h \in hits : \A j \in hits : h <= j
             IN  SubSeq(s, 1, i - 1) \o rep
                 \o Replace(SubSeq(s, i + Len(pat), Len(s)), pat, rep)

\* `pat in s` for strings.
Contains(s, pat) ==
    \E i \in 0..(Len(s) - Len(pat)) : SubSeq(s, i + 1, i + Len(pat)) = pat

UpperLetters ==
    <<"A", "B", "C", "D", "E", "F", "G", "H", "I", "J", "K", "L", "M",
      "N", "O", "P", "Q", "R", "S", "T", "U", "V", "W", "X", "Y", "Z">>
LowerLetters ==
    <<"a", "b", "c", "d", "e", "f", "g", "h", "i", "j", "k", "l", "m",
      "n", "o", "p", "q", "r", "s", "t", "u", "v", "w", "x", "y", "z">>

LowerChar(c) ==
    IF \E i \in 1..26 : UpperLetters[i] = c
    THEN LowerLetters[CHOOSE i \in 1..26 : UpperLetters[i] = c]
    ELSE c

\* str.lower()
Lower(s) == [i \in 1..Len(s) |-> LowerChar(s[i])]

\* the characters matched by the regular expression \s
WhiteSpace == {"SP", "TAB", "NL"}

\* re.sub(r'\s+', '', s)
StripSpace(s) == SelectSeq(s, LAMBDA c : c \notin WhiteSpace)

\* ------------------------------------------------------------ 4.1 normalizer

TextBullet == <<"\\", "t", "e", "x", "t", "b", "u", "l", "l", "e", "t">>
TextBar == <<"\\", "t", "e", "x", "t", "b", "a", "r">>
\* the literal '\textbar' of the source is not a raw string: '\t' is a tab
TabExtBar == <<"TAB", "e", "x", "t", "b", "a", "r">>

NormArtifacts(s) ==
    LET a == Replace(s, TextBullet, <<>>)
        b == Replace(a, <<"BULLET">>, <<>>)
        c == Replace(b, <<"BULLET">>, <<>>)
        d == Replace(c, TextBar, <<"|">>)
    IN  Replace(d, TabExtBar, <<"|">>)

SmartQuotes(s) ==
    LET a == Replace(s, <<"RSQUO">>, <<"'">>)
        b == Replace(a, <<"LSQUO">>, <<"'">>)
        c == Replace(b, <<"LDQUO">>, <<"\"">>)
        d == Replace(c, <<"RDQUO">>, <<"\"">>)
        e == Replace(d, <<"EMDASH">>, <<"-", "-">>)
    IN  Replace(e, <<"ENDASH">>, <<"-">>)

FoldLigatures(s) ==
    LET a == Replace(s, <<"LIG_FF">>, <<"f", "f">>)
        b == Replace(a, <<"LIG_FI">>, <<"f", "i">>)
        c == Replace(b, <<"LIG_FL">>, <<"f", "l">>)
        d == Replace(c, <<"LIG_FFI">>, <<"f", "f", "i">>)
    IN  Replace(d, <<"LIG_FFL">>, <<"f", "f", "l">>)

\* fidelity_auditor.normalize
normalize(text) ==
    IF Falsy(text) THEN <<>>
    ELSE Lower(StripSpace(FoldLigatures(SmartQuotes(NormArtifacts(text.s)))))

\* a plausible slip: one copy has drifted and no longer folds the ligatures
normalize_text_drifted(text) ==
    IF Falsy(text) THEN <<>>
    ELSE Lower(StripSpace(SmartQuotes(NormArtifacts(text.s))))

\* lib.utils.normalize_text
normalize_text(text) ==
    IF Falsy(text) THEN <<>>
    ELSE Lower(StripSpace(FoldLigatures(SmartQuotes(NormArtifacts(text.s)))))

\* ---- inputs of the normalizer: up to MaxPieces pieces, each an artifact
\* token, a fragment of one, a typographic character, white space or a letter;
\* and the strings the normalizer's tests call it with
MaxPieces == 2

\* the bullet as test_fidelity_auditor.py line 8 spells it: the three
\* characters a-circumflex, euro sign, cent sign
MisencodedBullet == <<"ACIRC", "EURO", "CENT">>

NormPieces ==
    { TextBullet, TextBar, TabExtBar,
      <<"\\", "T", "e", "x", "t", "B", "u", "l", "l", "e", "t">>,
      <<"\\", "t", "e", "x", "t">>, <<"b", "u", "l", "l", "e", "t">>,
      <<"b", "a", "r">>,
      <<"BULLET">>, <<"SP">>, <<"NL">>, <<"|">>,
      <<"RSQUO">>, <<"LSQUO">>, <<"LDQUO">>, <<"RDQUO">>,
      <<"EMDASH">>, <<"ENDASH">>,
      <<"LIG_FF">>, <<"LIG_FI">>, <<"LIG_FL">>, <<"LIG_FFI">>, <<"LIG_FFL">>,
      <<"H", "i">>, <<"a">>, MisencodedBullet }

\* the arguments of test_normalize and test_normalize_empty
NormExamples ==
    { <<"H", "e", "l", "l", "o", "SP", "W", "o", "r", "l", "d">>,
      <<"H", "e", "l", "l", "o", "SP", "NL", "SP", "W", "o", "r", "l", "d">>,
      MisencodedBullet \o <<"SP", "B", "u", "l", "l", "e", "t">>,
      <<"I", "t", "e", "m", "SP", "|", "SP", "V", "a", "l", "u", "e">>,
      <<"SP", "SP", "E", "x", "t", "r", "a", "SP", "SP",
        "S", "p", "a", "c", "e", "s", "SP">>,
      <<>> }

NormInputs ==
    {PyNone} \cup {PyStr(Concat(ps)) : ps \in SeqsUpTo(NormPieces, MaxPieces)}
    \cup {PyStr(s) : s \in NormExamples}

NormIdle == nIn = PyNone /\ nWhich = "auditor" /\ nOut = <<>>
EscIdle == eIn = PyNone /\ eWhich = "engine" /\ eOut = <<>>
RenderIdle ==
    /\ rData = PyNone /\ rTemplate = <<>> /\ rWhich = "importer"
    /\ rDirect = <<>> /\ rWrapped = <<>>
AuditIdle == aSource = PyNone /\ aPdf = <<>> /\ aReport = <<>> /\ aRaised = ""
GuardIdle ==
    gPath = <<>> /\ gTool = "audit" /\ gPc = "start" /\ gWarned = FALSE
    /\ gOpened = FALSE /\ gRaised = "" /\ gOut = <<>>
LayoutIdle ==
    lDoc = <<>> /\ lTol = 3 /\ lOut = <<>>
CompileIdle ==
    cWhich = "compile_latex" /\ cEnv = "local" /\ cLaunch = "ok"
    /\ cHang = FALSE /\ cFiles = {} /\ cWritten = {} /\ cExit = -1
    /\ cPc = "start" /\ cRet = FALSE
DocxIdle ==
    dDoc = <<>> /\ dOut = <<>>
TexIdle ==
    /\ tPath = <<>> /\ tData = PyNone /\ tTemplate = <<>> /\ tOld = <<>>
    /\ tOutFile = <<>> /\ tPc = "start" /\ tTrace = <<>> /\ tRaised = ""
    /\ tExit = -1
AriIdle ==
    iArgs = <<>> /\ iPc = "start" /\ iTrace = <<>> /\ iLogged = <<>>
    /\ iExit = -1
ParIdle ==
    pJob = <<>> /\ pFiles0 = {} /\ pFiles = {} /\ pRun = <<>>

NormInit == nIn \in NormInputs /\ nWhich \in {"auditor", "utils"} /\ nOut = <<>>

\* one more application of the normalizer, to the input or to its last output
Normalize ==
    /\ Len(nOut) < 2
    /\ LET arg == IF nOut = <<>> THEN nIn ELSE PyStr(nOut[Len(nOut)])
           res == IF nWhich = "auditor" THEN normalize(arg) ELSE normalize_text(arg)
       IN  nOut' = Append(nOut, res)
    /\ UNCHANGED <<nIn, nWhich>>

InitNorm ==
    /\ NormInit
    /\ EscIdle /\ RenderIdle /\ AuditIdle /\ GuardIdle
    /\ LayoutIdle /\ CompileIdle /\ DocxIdle
    /\ TexIdle /\ AriIdle /\ ParIdle
NextNorm ==
    /\ Normalize
    /\ UNCHANGED <<escVars, renderVars, auditVars, guardVars,
                   layoutVars, compileVars, docxVars,
                   texVars, ariVars, parVars>>
SpecNorm == InitNorm /\ [][NextNorm]_vars

\* C1: normalize is idempotent: normalize(normalize(s)) = normalize(s) for
\* every input built from artifact tokens, typographic characters, ligature
\* code points, white space and mixed-case letters.
C1_NormalizeIdempotent == Len(nOut) = 2 => nOut[2] = nOut[1]

\* ------------------------------------------------------------ 4.2 escaper

\* the `mapping` table: the replacement of one character
EscapeChar(c) ==
    CASE c = "&" -> <<"\\", "&">>
      [] c = "%" -> <<"\\", "%">>
      [] c = "$" -> <<"\\", "$">>
      [] c = "#" -> <<"\\", "#">>
      [] c = "_" -> <<"\\", "_">>
      [] c = "{" -> <<"\\", "{">>
      [] c = "}" -> <<"\\", "}">>
      [] c = "~" -> <<"\\", "t", "e", "x", "t", "a", "s", "c", "i", "i",
                      "t", "i", "l", "d", "e", "{", "}">>
      [] c = "^" -> <<"\\", "t", "e", "x", "t", "a", "s", "c", "i", "i",
                      "c", "i", "r", "c", "u", "m", "{", "}">>
      [] c = "\\" -> <<"\\", "t", "e", "x", "t", "b", "a", "c", "k",
                       "s", "l", "a", "s", "h", "{", "}">>
      [] c = "|" -> <<"\\", "t", "e", "x", "t", "b", "a", "r", "{", "}">>
      [] OTHER -> <<c>>

\* a plausible slip: the text goes through without the mapping
MapReserved_raw(s) == s

\* "".join(mapping.get(c, c) for c in text)
MapReserved(s) == Concat([i \in 1..Len(s) |-> EscapeChar(s[i])])

\* a plausible slip: the ligature table is left out
SuppressLigatures_none(s) == s

\* for k, v in ligature_map.items(): text = text.replace(k, v)
SuppressLigatures(s) ==
    LET a == Replace(s, <<"f", "f">>, <<"f", "{", "f", "}">>)
        b == Replace(a, <<"f", "i">>, <<"f", "{", "i", "}">>)
        c == Replace(b, <<"f", "l">>, <<"f", "{", "l", "}">>)
        d == Replace(c, <<"f", "f", "i">>, <<"f", "{", "f", "}", "{", "i", "}">>)
    IN  Replace(d, <<"f", "f", "l">>, <<"f", "{", "f", "}", "{", "l", "}">>)

\* a plausible slip: one text.replace per key of the mapping, in the order of
\* the table, so that a backslash written for an earlier key is escaped again
escape_latex_sequential(text) ==
    IF text.t # "str" THEN text
    ELSE LET a == Replace(text.s, <<"&">>, EscapeChar("&"))
             b == Replace(a, <<"%">>, EscapeChar("%"))
             c == Replace(b, <<"$">>, EscapeChar("$"))
             d == Replace(c, <<"#">>, EscapeChar("#"))
             e == Replace(d, <<"_">>, EscapeChar("_"))
             f == Replace(e, <<"{">>, EscapeChar("{"))
             g == Replace(f, <<"}">>, EscapeChar("}"))
             h == Replace(g, <<"~">>, EscapeChar("~"))
             i == Replace(h, <<"^">>, EscapeChar("^"))
             j == Replace(i, <<"\\">>, EscapeChar("\\"))
             k == Replace(j, <<"|">>, EscapeChar("|"))
         IN  PyStr(SuppressLigatures(k))

\* importer_engine.escape_latex
escape_latex(text) ==
    IF text.t # "str" THEN text
    ELSE PyStr(SuppressLigatures(MapReserved(text.s)))

\* a plausible slip: a value that is not a string is coerced to text
utils_escape_latex_coerce(text) ==
    IF text.t # "str" THEN PyStr(<<>>)
    ELSE PyStr(SuppressLigatures(SmartQuotes(MapReserved(text.s))))

\* lib.utils.escape_latex
utils_escape_latex(text) ==
    IF text.t # "str" THEN text
    ELSE PyStr(SuppressLigatures(SmartQuotes(MapReserved(text.s))))

Reserved == {"&", "%", "$", "#", "_", "{", "}", "~", "^", "\\", "|"}

HasReserved(s) == \E i \in 1..Len(s) : s[i] \in Reserved

HasLigaturePair(s) ==
    \E i \in 1..(Len(s) - 1) : s[i] = "f" /\ s[i + 1] \in {"f", "i", "l"}

\* ---- inputs of the escaper: every string of at most two characters over
\* the reserved characters, the ligature letters, a plain letter and two
\* typographic characters; every string of at most MaxEscLen characters
\* over a part of them; every run of at most MaxEscLen + 1 ligature letters
\* (fff, ffi, fffl, ...); and three values that are not strings
MaxEscLen == 3

EscChars == Reserved \cup {"f", "i", "l", "a", "RSQUO", "EMDASH"}
EscCharsLong == {"&", "\\", "{", "}", "f", "i", "l", "a", "RSQUO"}

EscInputs ==
    {PyNone, PyInt(123), PyList(<<PyStr(<<"&">>)>>)}
    \cup {PyStr(s) : s \in SeqsUpTo(EscChars, 2)}
    \cup {PyStr(s) : s \in SeqsUpTo(EscCharsLong, MaxEscLen)}
    \cup {PyStr(s) : s \in SeqsUpTo({"f", "i", "l"}, MaxEscLen + 1)}

EscInit == eIn \in EscInputs /\ eWhich \in {"engine", "utils"} /\ eOut = <<>>

\* one more application of the escaper, to the input or to its last output
Escape ==
    /\ Len(eOut) < 2
    /\ LET arg == IF eOut = <<>> THEN eIn ELSE eOut[Len(eOut)]
           res == IF eWhich = "engine" THEN escape_latex(arg)
                  ELSE utils_escape_latex(arg)
       IN  eOut' = Append(eOut, res)
    /\ UNCHANGED <<eIn, eWhich>>

InitEsc ==
    /\ EscInit
    /\ NormIdle /\ RenderIdle /\ AuditIdle /\ GuardIdle
    /\ LayoutIdle /\ CompileIdle /\ DocxIdle
    /\ TexIdle /\ AriIdle /\ ParIdle
NextEsc ==
    /\ Escape
    /\ UNCHANGED <<normVars, renderVars, auditVars, guardVars,
                   layoutVars, compileVars, docxVars,
                   texVars, ariVars, parVars>>
SpecEsc == InitEsc /\ [][NextEsc]_vars

\* C2 (as claimed): the escaper is idempotent, escape(escape(s)) = escape(s).
C2_EscapeIdempotent == Len(eOut) = 2 => eOut[2] = eOut[1]

\* C2 (amended): a second application escapes again.  escape(escape(s))
\* equals escape(s) exactly when s holds no reserved character and no
\* ligature pair (ff, fi, fl); otherwise the second result is strictly longer.
C2_EscapeTwice ==
    (Len(eOut) = 2 /\ eIn.t = "str") =>
        IF HasReserved(eIn.s) \/ HasLigaturePair(eIn.s)
        THEN Len(eOut[2].s) > Len(eOut[1].s)
        ELSE eOut[2] = eOut[1]

\* C2 witness: text with a reserved character has been escaped twice.
C2_Witness ==
    /\ Len(eOut) = 2
    /\ eIn = PyStr(<<"a", "&">>)
    /\ eOut[1] = PyStr(<<"a", "\\", "&">>)
    /\ eOut[2] # eOut[1]

\* ------------------------------------------------------------ 4.4 renderer

\* The keys of the JSON objects, in the order the JSON text lists them.
KeyOrder == <<"name", "resume">>
Keys == {KeyOrder[i] : i \in 1..Len(KeyOrder)}

KeyChars(k) ==
    IF k = "name" THEN <<"n", "a", "m", "e">>
    ELSE <<"r", "e", "s", "u", "m", "e">>

\* str(value), as Jinja2 writes an interpolated value that is not a string
RECURSIVE PyRepr(_)
PyToStr(v) == IF v.t = "str" THEN v.s ELSE PyRepr(v)
PyRepr(v) ==
    CASE v.t = "str" -> <<"'">> \o v.s \o <<"'">>
      [] v.t = "none" -> <<"N", "o", "n", "e">>
      [] v.t = "dict" ->
            LET ks == SelectSeq(KeyOrder, LAMBDA k : k \in DOMAIN v.f)
                item(i) == (IF i = 1 THEN <<>> ELSE <<",", "SP">>)
                           \o <<"'">> \o KeyChars(ks[i]) \o <<"'", ":", "SP">>
                           \o PyRepr(v.f[ks[i]])
            IN  <<"{">> \o Concat([i \in 1..Len(ks) |-> item(i)]) \o <<"}">>
      [] OTHER -> <<"?">>

\* a plausible slip: the wrapper is unwrapped whenever it has a "resume" key
Unwrap_anyResume(data) ==
    IF data.t = "dict" /\ "resume" \in DOMAIN data.f
    THEN data.f["resume"] ELSE data

\* if "resume" in data and len(data) == 1: data = data["resume"]
Unwrap(data) ==
    IF data.t = "dict" /\ "resume" \in DOMAIN data.f
       /\ Cardinality(DOMAIN data.f) = 1
    THEN data.f["resume"] ELSE data

\* A template segment is literal text or an interpolation ((( resume.path )))
\* with or without the filter: ((( resume.path | latex_escape ))).
Lit(s) == [k |-> "lit", s |-> s, path |-> <<>>, esc |-> FALSE]
Var(path, esc) == [k |-> "var", s |-> <<>>, path |-> path, esc |-> esc]

\* resume.key in a template: the item of a dict, Undefined otherwise
Undefined == [t |-> "undefined"]
RECURSIVE Lookup(_, _)
Lookup(v, path) ==
    IF path = <<>> THEN v
    ELSE IF v.t = "dict" /\ Head(path) \in DOMAIN v.f
         THEN Lookup(v.f[Head(path)], Tail(path))
         ELSE Undefined

\* what one interpolation writes: the filter is applied only where the
\* template names it (the Environment is built with no autoescape and no
\* finalize); Undefined is written as the empty string
Interpolate(v, filter) ==
    IF v.t = "undefined" THEN <<>>
    ELSE IF filter = "none" THEN PyToStr(v)
    ELSE IF filter = "engine" THEN PyToStr(escape_latex(v))
    ELSE PyToStr(utils_escape_latex(v))

\* the filter env.filters['latex_escape'] of each engine
LatexEscapeOf(which) == IF which = "importer" THEN "engine" ELSE "utils"

\* template.render(resume=data)
Render(template, data, which) ==
    Concat([i \in 1..Len(template) |->
        IF template[i].k = "lit" THEN template[i].s
        ELSE Interpolate(Lookup(data, template[i].path),
                         IF template[i].esc THEN LatexEscapeOf(which) ELSE "none")])

\* the same template with every interpolation escaped
RenderEscaped(template, data, which) ==
    Concat([i \in 1..Len(template) |->
        IF template[i].k = "lit" THEN template[i].s
        ELSE Interpolate(Lookup(data, template[i].path), LatexEscapeOf(which))])

\* run_engine: the data bound to the template and the text written
run_engine(data, template, which) ==
    LET bound == Unwrap(data)
    IN  [bound |-> bound, rendered |-> Render(template, bound, which)]

\* ---- inputs of the renderer
MaxSegs == 2

RenderStrs == {PyStr(<<"A", "&", "B">>), PyStr(<<"o", "k">>)}

DictsOver(vals) ==
    {PyDict(f) : f \in UNION {[ks -> vals] : ks \in SUBSET Keys}}

Payloads == DictsOver(RenderStrs \cup DictsOver(RenderStrs))

Segments ==
    {Lit(<<"x", "=">>), Var(<<>>, FALSE)}
    \cup {Var(<<k>>, e) : k \in Keys, e \in BOOLEAN}

RenderInit ==
    /\ rData \in Payloads
    /\ rTemplate \in SeqsUpTo(Segments, MaxSegs)
    /\ rWhich \in {"importer", "tex"}
    /\ rDirect = <<>> /\ rWrapped = <<>>

Wrapped(d) == PyDict([k \in {"resume"} |-> d])

\* run_engine on a data file that holds d
RunDirect ==
    /\ rDirect = <<>>
    /\ rDirect' = <<run_engine(rData, rTemplate, rWhich)>>
    /\ UNCHANGED <<rData, rTemplate, rWhich, rWrapped>>

\* run_engine on a data file that holds {"resume": d}
RunWrapped ==
    /\ rWrapped = <<>>
    /\ rWrapped' = <<run_engine(Wrapped(rData), rTemplate, rWhich)>>
    /\ UNCHANGED <<rData, rTemplate, rWhich, rDirect>>

InitRender ==
    /\ RenderInit
    /\ NormIdle /\ EscIdle /\ AuditIdle /\ GuardIdle
    /\ LayoutIdle /\ CompileIdle /\ DocxIdle
    /\ TexIdle /\ AriIdle /\ ParIdle
NextRender ==
    /\ (RunDirect \/ RunWrapped)
    /\ UNCHANGED <<normVars, escVars, auditVars, guardVars,
                   layoutVars, compileVars, docxVars,
                   texVars, ariVars, parVars>>
SpecRender == InitRender /\ [][NextRender]_vars

SoleResume(d) == d.t = "dict" /\ DOMAIN d.f = {"resume"}

C4_AlwaysEscaped ==
    rDirect # <<>> =>
        rDirect[1].rendered = RenderEscaped(rTemplate, rDirect[1].bound, rWhich)

\* ------------------------------------------------------------ 4.6 auditor

\* dict.get(key) and dict.get(key, default)
GetOr(d, key, default) == IF key \in DOMAIN d.f THEN d.f[key] ELSE default
Get(d, key) == GetOr(d, key, PyNone)

\* extract_geo_text: one token per word of every line of every page.  A
\* page is a sequence of lines [words, top]; extract_words splits a line at
\* its white space, so a token never holds more than one word.
extract_geo_text(pdf) ==
    Concat([pn \in 1..Len(pdf) |->
        Concat([ln \in 1..Len(pdf[pn]) |->
            [wi \in 1..Len(pdf[pn][ln].words) |->
                [text |-> pdf[pn][ln].words[wi], x0 |-> wi,
                 top |-> pdf[pn][ln].top, page |-> pn]]])])

\* the length of a longest common subsequence
RECURSIVE LCS(_, _)
LCS(a, b) ==
    IF a = <<>> \/ b = <<>> THEN 0
    ELSE IF Head(a) = Head(b) THEN 1 + LCS(Tail(a), Tail(b))
    ELSE LET x == LCS(Tail(a), b)
             y == LCS(a, Tail(b))
         IN  IF x >= y THEN x ELSE y

\* The windows of the longer string that fuzz.partial_ratio aligns the
\* shorter one with: the prefixes shorter than it, every substring of its
\* length, and the suffixes no longer than it; a window whose boundary
\* character does not occur in the shorter string is passed over.
Windows(short, long) ==
    LET m == Len(short)
        n == Len(long)
        has(c) == \E i \in 1..m : short[i] = c
    IN  {SubSeq(long, 1, i) : i \in {j \in 1..(m - 1) : has(long[j])}}
        \cup {SubSeq(long, i, i + m - 1) :
                 i \in {j \in 1..(n - m) : has(long[j + m - 1])}}
        \cup {SubSeq(long, i, n) :
                 i \in {j \in (n - m + 1)..n : j >= 1 /\ has(long[j])}}

\* fuzz.ratio of two strings as a fraction of 100: [num, den], the
\* normalized indel similarity 2*LCS/(len1+len2)
Ratio(a, b) == [num |-> 200 * LCS(a, b), den |-> Len(a) + Len(b)]

AtLeast(r1, r2) == r1.num * r2.den >= r2.num * r1.den

BestRatio(short, long) ==
    LET rs == {Ratio(short, w) : w \in Windows(short, long)}
    IN  IF rs = {} THEN [num |-> 0, den |-> 1]
        ELSE CHOOSE r \in rs : \A q \in rs : AtLeast(r, q)

\* fuzz.partial_ratio(s1, s2), a fraction [num, den] of 100
partial_ratio(s1, s2) ==
    IF s1 = <<>> /\ s2 = <<>> THEN [num |-> 100, den |-> 1]
    ELSE IF Len(s1) < Len(s2) THEN BestRatio(s1, s2)
    ELSE IF Len(s2) < Len(s1) THEN BestRatio(s2, s1)
    ELSE LET r1 == BestRatio(s1, s2)
             r2 == BestRatio(s2, s1)
         IN  IF AtLeast(r1, r2) THEN r1 ELSE r2

\* the score as the messages show it, {score:.1f}, in tenths
Tenths(r) == (20 * r.num + r.den) \div (2 * r.den)

FuzzyThreshold == 85
DriftThreshold == 150

\* score < 85
BelowThreshold(r) == r.num < FuzzyThreshold * r.den

Index(i) == ToString(i - 1)

\* a plausible slip: no fuzzy fallback, every value that is not a
\* normalized substring is reported
RECURSIVE check_exists_noFuzzy(_, _, _, _)
check_exists_noFuzzy(val, label, target_norm, target_text_full) ==
    IF Falsy(val) THEN <<>>
    ELSE IF val.t = "list"
    THEN Concat([i \in 1..Len(val.xs) |->
             check_exists_noFuzzy(val.xs[i], label \o <<Index(i)>>,
                                  target_norm, target_text_full)])
    ELSE IF ~Contains(target_norm, normalize(PyStr(PyToStr(val))))
         THEN <<[kind |-> "MISSING CONTENT", label |-> label, val |-> val,
                 score |-> 0]>>
         ELSE <<>>

\* check_exists(val, label): the issues it appends.  A label Exp[0].bullets[1]
\* is the sequence <<"Exp", "0", "bullets", "1">>.
RECURSIVE check_exists(_, _, _, _)
check_exists(val, label, target_norm, target_text_full) ==
    IF Falsy(val) THEN <<>>
    ELSE IF val.t = "list"
    THEN Concat([i \in 1..Len(val.xs) |->
             check_exists(val.xs[i], label \o <<Index(i)>>,
                          target_norm, target_text_full)])
    ELSE LET norm_val == normalize(PyStr(PyToStr(val)))
             score == partial_ratio(Lower(PyToStr(val)), Lower(target_text_full))
         IN  IF ~Contains(target_norm, norm_val) /\ BelowThreshold(score)
             THEN <<[kind |-> "MISSING CONTENT", label |-> label, val |-> val,
                     score |-> Tenths(score)]>>
             ELSE <<>>

\* a plausible slip: the name is flagged when any occurrence lies below
\* the threshold, not their average
geometric_check_any(name, target_geo) ==
    IF Falsy(name) THEN <<>>
    ELSE LET objs == SelectSeq(target_geo, LAMBDA w :
                         Contains(normalize(PyStr(w.text)), normalize(name)))
         IN  IF \E i \in 1..Len(objs) : objs[i].top > DriftThreshold
             THEN <<[kind |-> "GEOMETRIC DRIFT", label |-> <<"Name">>,
                     val |-> name, score |-> 0]>>
             ELSE <<>>

RECURSIVE SumTop(_)
SumTop(ws) == IF ws = <<>> THEN 0 ELSE Head(ws).top + SumTop(Tail(ws))

\* 2. Geometric Consistency: the issues it appends
geometric_check(name, target_geo) ==
    IF Falsy(name) THEN <<>>
    ELSE LET objs == SelectSeq(target_geo, LAMBDA w :
                         Contains(normalize(PyStr(w.text)), normalize(name)))
         IN  IF objs # <<>> /\ SumTop(objs) > DriftThreshold * Len(objs)
             THEN <<[kind |-> "GEOMETRIC DRIFT", label |-> <<"Name">>,
                     val |-> name,
                     score |-> (10 * SumTop(objs)) \div Len(objs)]>>
             ELSE <<>>

\* a plausible slip: the score is not clamped at 0
make_report_noClamp(issues, target_geo, experience) ==
    [status |-> IF issues = <<>> THEN "PASS" ELSE "FAIL",
     integrity_score |-> 100 - Len(issues) * 5,
     issues |-> issues,
     metrics |-> [target_word_count |-> Len(target_geo),
                  source_experience_count |-> Len(experience)]]

\* report = {...}
make_report(issues, target_geo, experience) ==
    [status |-> IF issues = <<>> THEN "PASS" ELSE "FAIL",
     integrity_score |->
         IF 100 - Len(issues) * 5 > 0 THEN 100 - Len(issues) * 5 ELSE 0,
     issues |-> issues,
     metrics |-> [target_word_count |-> Len(target_geo),
                  source_experience_count |-> Len(experience)]]

\* audit, from the loaded source_data on, when
\* source_data.get('experience', []) is a list (see Audit for the rest)
audit(source_data, pdf) ==
    LET target_geo == extract_geo_text(pdf)
        target_text_full == Concat([i \in 1..Len(target_geo) |-> target_geo[i].text])
        target_norm == normalize(PyStr(target_text_full))
        experience == GetOr(source_data, "experience", PyList(<<>>)).xs
        exp_issues(i) ==
            check_exists(Get(experience[i], "company"),
                         <<"Exp", Index(i), "company">>,
                         target_norm, target_text_full)
            \o check_exists(Get(experience[i], "bullets"),
                            <<"Exp", Index(i), "bullets">>,
                            target_norm, target_text_full)
        issues ==
            check_exists(Get(source_data, "name"), <<"Name">>,
                         target_norm, target_text_full)
            \o Concat([i \in 1..Len(experience) |-> exp_issues(i)])
            \o geometric_check(Get(source_data, "name"), target_geo)
    IN  make_report(issues, target_geo, experience)

\* ---- inputs of the auditor
MaxExp == 1
ManyBullets == 21

Str_Al == PyStr(<<"A", "l">>)
Str_JD == PyStr(<<"J", "SP", "D">>)
Str_Ac == PyStr(<<"A", "c">>)
Str_Zz == PyStr(<<"Z", "z">>)
Str_ab_c == PyStr(<<"a", "b", "-", "c">>)

Line(words, top) == [words |-> words, top |-> top]

\* the lines that may carry the name, and the lines below them
NameLines ==
    { <<>>,
      <<Line(<<Str_Al.s>>, 100)>>,
      <<Line(<<Str_Al.s>>, 200)>>,
      <<Line(<<Str_Al.s>>, 100), Line(<<Str_Al.s>>, 200)>>,
      <<Line(<<<<"J">>, <<"D">>>>, 100)>>,
      <<Line(<<<<"J">>, <<"D">>>>, 200)>> }
BodyLines ==
    { <<>>,
      <<Line(<<Str_Ac.s>>, 300)>>,
      <<Line(<<<<"a", "b", "c">>>>, 300)>> }

Pdfs == {<<>>} \cup {<<n \o b>> : n \in NameLines, b \in BodyLines}

Entry(company, bullets) ==
    PyDict([k \in {"company", "bullets"} |->
               IF k = "company" THEN company ELSE bullets])

\* the experience entries: no key at all, null and empty fields, values
\* that are in the text, near it or absent from it, and a long bullets list
Entries ==
    { PyDict(<<>>),
      Entry(Str_Ac, PyNone),
      Entry(Str_Zz, PyNone),
      Entry(Str_ab_c, PyList(<<>>)),
      Entry(PyNone, PyList(<<Str_Zz, PyStr(<<>>)>>)),
      Entry(Str_Ac, PyList(<<Str_Ac>>)),
      Entry(Str_Zz, PyList(<<Str_Ac>>)),
      Entry(Str_Zz, PyList([i \in 1..ManyBullets |-> Str_Zz])) }

CustomSections ==
    PyList(<<PyDict([k \in {"title", "content"} |->
                        IF k = "title" THEN Str_Zz ELSE Str_Ac])>>)

\* the source object; a key given as Absent is not in it
Absent == [t |-> "absent"]
SourceOf(name, experience, custom) ==
    LET ks == (IF name = Absent THEN {} ELSE {"name"})
              \cup (IF experience = Absent THEN {} ELSE {"experience"})
              \cup (IF custom = Absent THEN {} ELSE {"custom_sections"})
    IN  PyDict([k \in ks |->
            IF k = "name" THEN name
            ELSE IF k = "experience" THEN experience ELSE custom])

AuditInit ==
    /\ aSource \in
         { SourceOf(n, e, c) :
             n \in {Absent, PyNone, PyStr(<<>>), Str_Al, Str_JD},
             e \in {Absent, PyNone}
                   \cup {PyList(es) : es \in SeqsUpTo(Entries, MaxExp)},
             c \in {Absent, CustomSections} }
    /\ aPdf \in Pdfs
    /\ aReport = <<>>
    /\ aRaised = ""

\* audit(source_json_path, target_pdf_path), after the files are read:
\* enumerate() of an experience that is null raises TypeError, and no report
\* is returned
Audit ==
    /\ aReport = <<>> /\ aRaised = ""
    /\ IF GetOr(aSource, "experience", PyList(<<>>)).t = "list"
       THEN aReport' = <<audit(aSource, aPdf)>> /\ aRaised' = ""
       ELSE aReport' = <<>> /\ aRaised' = "TypeError"
    /\ UNCHANGED <<aSource, aPdf>>

InitAudit ==
    /\ AuditInit
    /\ NormIdle /\ EscIdle /\ RenderIdle /\ GuardIdle
    /\ LayoutIdle /\ CompileIdle /\ DocxIdle
    /\ TexIdle /\ AriIdle /\ ParIdle
NextAudit ==
    /\ Audit
    /\ UNCHANGED <<normVars, escVars, renderVars, guardVars,
                   layoutVars, compileVars, docxVars,
                   texVars, ariVars, parVars>>
SpecAudit == InitAudit /\ [][NextAudit]_vars

\* ---- what the claims about the audit speak of

\* the comparison target: the tokens' text concatenated, and normalized
TargetFull ==
    LET g == extract_geo_text(aPdf)
    IN  Concat([i \in 1..Len(g) |-> g[i].text])
TargetNorm == normalize(PyStr(TargetFull))

\* the string leaves of a field value, each with its path label
RECURSIVE Leaves(_, _)
Leaves(val, label) ==
    IF Falsy(val) THEN <<>>
    ELSE IF val.t = "list"
    THEN Concat([i \in 1..Len(val.xs) |->
                    Leaves(val.xs[i], label \o <<ToString(i - 1)>>)])
    ELSE <<[label |-> label, val |-> val]>>

EntriesOf(src, key) ==
    LET v == GetOr(src, key, PyList(<<>>))
    IN  IF v.t = "list" THEN v.xs ELSE <<>>

\* the leaves of the name, of every company and of every bullets field
CheckedFields(src) ==
    LET es == EntriesOf(src, "experience")
    IN  Leaves(Get(src, "name"), <<"Name">>)
        \o Concat([i \in 1..Len(es) |->
               Leaves(Get(es[i], "company"), <<"Exp", ToString(i - 1), "company">>)
               \o Leaves(Get(es[i], "bullets"), <<"Exp", ToString(i - 1), "bullets">>)])

\* the leaves of every custom section's title and content
CustomFields(src) ==
    LET cs == EntriesOf(src, "custom_sections")
    IN  Concat([i \in 1..Len(cs) |->
            Leaves(Get(cs[i], "title"), <<"Custom", ToString(i - 1), "title">>)
            \o Leaves(Get(cs[i], "content"), <<"Custom", ToString(i - 1), "content">>)])

Found(val) == Contains(TargetNorm, normalize(PyStr(PyToStr(val))))

\* the normalized value is no substring and the partial ratio is below 85
Absent85(val) ==
    /\ ~Found(val)
    /\ LET r == partial_ratio(Lower(PyToStr(val)), Lower(TargetFull))
       IN  20 * r.num < 17 * 100 * r.den

IssuesOf(kind) == SelectSeq(aReport[1].issues, LAMBDA x : x.kind = kind)

\* the lines of the rendered pages whose normalized text holds the name
AllLines == Concat(aPdf)
NameLinesOf(name) ==
    SelectSeq(AllLines, LAMBDA l :
        Contains(normalize(PyStr(Concat(l.words))), normalize(name)))

\* the word tokens whose normalized text holds the name
NameTokensOf(name) ==
    SelectSeq(extract_geo_text(aPdf), LAMBDA w :
        Contains(normalize(PyStr(w.text)), normalize(name)))

\* C5: every report audit returns has status FAIL iff issues is non-empty
\* (PASS otherwise), integrity_score = max(0, 100 - 5*len(issues)), an
\* integer in [0, 100] that is 0 for 20 or more issues.
C5_ReportScore ==
    aReport # <<>> =>
        LET r == aReport[1]
            n == Len(r.issues)
        IN  /\ r.status \in {"PASS", "FAIL"}
            /\ (r.status = "FAIL") <=> (n > 0)
            /\ r.integrity_score \in 0..100
            /\ n < 20 => r.integrity_score = 100 - 5 * n
            /\ n >= 20 => r.integrity_score = 0

\* C5 witness: a report with more than 20 issues, its score held at 0.
C5_Witness ==
    /\ aReport # <<>>
    /\ Len(aReport[1].issues) > 20
    /\ aReport[1].integrity_score = 0
    /\ aReport[1].status = "FAIL"

\* C6: for each checked source field the report holds exactly one MISSING
\* CONTENT issue with the field's path label when its normalized value is no
\* substring of the normalized full text and the partial ratio is below 85,
\* and none for that field otherwise; a source whose only absent field is
\* Exp[0].company yields exactly one such issue and status FAIL (the only
\* other issue a report can hold is one GEOMETRIC DRIFT issue).
C6_MissingContentPerField ==
    aReport # <<>> =>
        LET missing == SelectSeq(CheckedFields(aSource), LAMBDA f : Absent85(f.val))
            mc == IssuesOf("MISSING CONTENT")
            gd == IssuesOf("GEOMETRIC DRIFT")
        IN  /\ Len(mc) = Len(missing)
            /\ \A i \in 1..Len(mc) :
                   mc[i].label = missing[i].label /\ mc[i].val = missing[i].val
            /\ Len(aReport[1].issues) = Len(mc) + Len(gd)
            /\ Len(gd) <= 1
            /\ (Len(missing) = 1 /\ missing[1].label = <<"Exp", "0", "company">>) =>
                   /\ aReport[1].status = "FAIL"
                   /\ Len(mc) = 1
                   /\ mc[1].label = <<"Exp", "0", "company">>

\* C6 witness: the company is the only absent field, the name is in place,
\* and a second company-like value passes on its partial ratio alone.
C6_Witness ==
    /\ aReport # <<>>
    /\ Get(aSource, "name") = Str_Al
    /\ EntriesOf(aSource, "experience") = <<Entry(Str_Zz, PyList(<<Str_Ac>>))>>
    /\ Found(Str_Ac)
    /\ aReport[1].issues =
           <<[kind |-> "MISSING CONTENT", label |-> <<"Exp", "0", "company">>,
              val |-> Str_Zz, score |-> 0]>>

\* The other case of C6 is reachable too: a value that is no normalized
\* substring but whose partial ratio is 85 or more raises no issue.
FuzzyPassReached ==
    /\ aReport # <<>>
    /\ \E i \in 1..Len(EntriesOf(aSource, "experience")) :
           Get(EntriesOf(aSource, "experience")[i], "company") = Str_ab_c
    /\ ~Found(Str_ab_c)
    /\ ~Absent85(Str_ab_c)
    /\ aReport[1].issues = <<>>

AllFound(fields) == \A i \in 1..Len(fields) : Found(fields[i].val)

NameAndCompanies(src) ==
    LET es == EntriesOf(src, "experience")
    IN  Leaves(Get(src, "name"), <<"Name">>)
        \o Concat([i \in 1..Len(es) |->
               Leaves(Get(es[i], "company"), <<"Exp", ToString(i - 1), "company">>)])

\* the word tokens that hold the name average above the drift threshold
TokensDrift(src) ==
    /\ ~Falsy(Get(src, "name"))
    /\ LET ws == NameTokensOf(Get(src, "name"))
       IN  ws # <<>> /\ SumTop(ws) > 150 * Len(ws)

IterableExperience(src) == GetOr(src, "experience", PyList(<<>>)).t = "list"

C8_DriftRecorded ==
    (aReport # <<>> /\ ~Falsy(Get(aSource, "name"))) =>
        LET ls == NameLinesOf(Get(aSource, "name"))
            sum == SumTop(ls)
        IN  (ls # <<>> /\ sum > 150 * Len(ls)) =>
                IssuesOf("GEOMETRIC DRIFT") # <<>>

\* C9: every leaf of a custom section's title and content is checked under
\* its own label: an absent one (no substring, ratio below 85) has a
\* MISSING CONTENT issue labelled Custom[i].title (or .content).
C9_CustomSectionsChecked ==
    aReport # <<>> =>
        \A i \in 1..Len(CustomFields(aSource)) :
            LET f == CustomFields(aSource)[i]
            IN  Absent85(f.val) =>
                    \E j \in 1..Len(aReport[1].issues) :
                        /\ aReport[1].issues[j].kind = "MISSING CONTENT"
                        /\ aReport[1].issues[j].label = f.label

\* the source without the keys whose value is falsy, at the top and in
\* every experience entry
Prune(d) ==
    LET ks == {k \in DOMAIN d.f : ~Falsy(d.f[k])}
    IN  PyDict([k \in ks |->
            IF k = "experience" /\ d.f[k].t = "list"
            THEN PyList([i \in 1..Len(d.f[k].xs) |->
                     LET e == d.f[k].xs[i]
                     IN  PyDict([c \in {c \in DOMAIN e.f : ~Falsy(e.f[c])} |-> e.f[c]])])
            ELSE d.f[k]])

\* C10: an empty or falsy source field value (missing key, None, empty
\* string, empty list) is skipped: audit returns its report, the report is
\* the one of the source without those fields, and no issue names a falsy
\* value.
C10_FalsySkipped ==
    (aReport # <<>> \/ aRaised # "") =>
        /\ aRaised = ""
        /\ aReport = <<audit(Prune(aSource), aPdf)>>
        /\ \A j \in 1..Len(aReport[1].issues) : ~Falsy(aReport[1].issues[j].val)

\* ------------------------------------------------------------ path guards

\* the names a path is made of, and their characters
PathNames == {"..", "ari", "ari2", "etc", "data", "masters", "json", "f"}
NameChars(n) ==
    CASE n = ".." -> <<".", ".">>
      [] n = "ari" -> <<"a", "r", "i">>
      [] n = "ari2" -> <<"a", "r", "i", "2">>
      [] n = "etc" -> <<"e", "t", "c">>
      [] n = "data" -> <<"d", "a", "t", "a">>
      [] n = "masters" -> <<"m", "a", "s", "t", "e", "r", "s">>
      [] n = "json" -> <<"j", "s", "o", "n">>
      [] n = "f" -> <<"f">>
      [] n = "Strategy_Dossier" ->
            <<"S", "t", "r", "a", "t", "e", "g", "y", "_", "D", "o", "s",
            "s", "i", "e", "r">>

\* str(p) of an absolute path p, given as the sequence of its names
PathStr(p) ==
    IF p = <<>> THEN <<"/">>
    ELSE Concat([i \in 1..Len(p) |-> <<"/">> \o NameChars(p[i])])

\* Path(__file__).parent.parent.parent.resolve(): the project root, which
\* is also the directory the tools are run from
ProjectRoot == <<"ari">>
Cwd == ProjectRoot

\* Path(path_str).resolve(): a relative path is taken from the working
\* directory and every ".." drops the last name ("/.." is "/"); the file
\* system holds no symbolic link
RECURSIVE ResolveParts(_, _)
ResolveParts(base, parts) ==
    IF parts = <<>> THEN base
    ELSE LET h == Head(parts)
             b == IF h # ".." THEN Append(base, h)
                  ELSE IF base = <<>> THEN <<>>
                  ELSE SubSeq(base, 1, Len(base) - 1)
         IN  ResolveParts(b, Tail(parts))
Resolve(path) == ResolveParts(IF path.abs THEN <<>> ELSE Cwd, path.parts)

\* str.startswith
StartsWith(s, pre) == Len(s) >= Len(pre) /\ SubSeq(s, 1, Len(pre)) = pre

DataMasters == NameChars("data") \o <<"/">> \o NameChars("masters")
DataJson == NameChars("data") \o <<"/">> \o NameChars("json")

\* the files of the file system and what they hold
JsonFiles ==
    { <<"ari", "data", "masters", "f">>, <<"ari", "data", "json", "f">>,
      <<"ari", "f">>, <<"ari2", "f">>, <<"ari2", "data", "masters", "f">>,
      <<"ari", "data", "json", "Strategy_Dossier">> }
TextFiles == { <<"etc", "f">> }
IsDir(p) ==
    \E q \in JsonFiles \cup TextFiles :
        Len(q) > Len(p) /\ SubSeq(q, 1, Len(p)) = p

\* open(path, 'r') and json.load: the exception raised, "" for none
OpenJson(p) ==
    IF p \in JsonFiles THEN ""
    ELSE IF p \in TextFiles THEN "JSONDecodeError"
    ELSE IF IsDir(p) THEN "IsADirectoryError"
    ELSE "FileNotFoundError"

\* lib.utils.validate_master_path
validate_master_path(path) ==
    LET p == Resolve(path)
    IN  IF ~StartsWith(PathStr(p), PathStr(ProjectRoot))
        THEN [raised |-> "PermissionError", warned |-> FALSE, ret |-> <<>>]
        ELSE [raised |-> "",
              warned |-> ~Contains(PathStr(p), DataJson),
              ret |-> <<p>>]

\* ---- inputs of the guards: relative and absolute paths of at most
\* MaxPathLen names
MaxPathLen == 4
GuardPaths ==
    {[abs |-> a, parts |-> ps] :
        a \in BOOLEAN, ps \in SeqsUpTo(PathNames, MaxPathLen)}

\* what the source files hold, and the PDF the audit compares with
GuardSource == SourceOf(Str_Al, Absent, Absent)
GuardPdf == <<<<Line(<<Str_Al.s>>, 100)>>>>

GuardInit ==
    /\ gPath \in GuardPaths
    /\ gTool \in {"audit", "validate_master_path"}
    /\ gPc = "start" /\ gWarned = FALSE /\ gOpened = FALSE
    /\ gRaised = "" /\ gOut = <<>>

\* audit(source_json_path, target_pdf_path): the warning, the read of the
\* source file, and the report
AuditPath ==
    /\ gTool = "audit" /\ gPc = "start"
    /\ LET source_p == Resolve(gPath)
           err == OpenJson(source_p)
       IN  /\ gWarned' = ~Contains(PathStr(source_p), DataMasters)
           /\ gOpened' = (err \in {"", "JSONDecodeError"})
           /\ gRaised' = err
           /\ gOut' = IF err = "" THEN <<audit(GuardSource, GuardPdf)>>
                      ELSE <<>>
    /\ gPc' = "done"
    /\ UNCHANGED <<gPath, gTool>>

\* validate_master_path(path_str): the resolved path or PermissionError;
\* no file is opened
ValidatePath ==
    /\ gTool = "validate_master_path" /\ gPc = "start"
    /\ LET r == validate_master_path(gPath)
       IN  /\ gWarned' = r.warned
           /\ gRaised' = r.raised
           /\ gOut' = r.ret
    /\ gOpened' = FALSE
    /\ gPc' = "done"
    /\ UNCHANGED <<gPath, gTool>>

InitGuard ==
    /\ GuardInit
    /\ NormIdle /\ EscIdle /\ RenderIdle /\ AuditIdle
    /\ LayoutIdle /\ CompileIdle /\ DocxIdle
    /\ TexIdle /\ AriIdle /\ ParIdle
NextGuard ==
    /\ (AuditPath \/ ValidatePath)
    /\ UNCHANGED <<normVars, escVars, renderVars, auditVars,
                   layoutVars, compileVars, docxVars,
                   texVars, ariVars, parVars>>
SpecGuard == InitGuard /\ [][NextGuard]_vars

\* the resolved path lies in the project root directory
InsideRoot(p) ==
    Len(p) >= Len(ProjectRoot) /\ SubSeq(p, 1, Len(ProjectRoot)) = ProjectRoot

\* the resolved path lies in the directory dir of the project root
InsideDir(p, dir) ==
    LET d == ProjectRoot \o dir
    IN  Len(p) >= Len(d) /\ SubSeq(p, 1, Len(d)) = d

\* C11: a source path that resolves outside the root makes audit fail with
\* PermissionError before the source file is opened; one inside the root but
\* outside data/masters only sets the warning, and the report is produced
\* when the file can be read.
C11_AuditGuard ==
    (gTool = "audit" /\ gPc = "done") =>
        LET p == Resolve(gPath)
        IN  /\ ~InsideRoot(p) => gRaised = "PermissionError" /\ ~gOpened
            /\ (InsideRoot(p) /\ ~InsideDir(p, <<"data", "masters">>)) =>
                   /\ gWarned
                   /\ p \in JsonFiles => gOut # <<>>

\* C12: validate_master_path raises for every path that resolves outside
\* the project root directory, a sibling directory whose name begins with
\* the root's name included, and reads no file before it fails.
C12_ValidateRejectsOutside ==
    (gTool = "validate_master_path" /\ gPc = "done") =>
        (~InsideRoot(Resolve(gPath)) =>
             gRaised = "PermissionError" /\ ~gOpened /\ gOut = <<>>)

\* ------------------------------------------------------------ 4.3 geometry

\* a word of page.extract_words(extra_attrs=["fontname", "size"]); its
\* text names its place: "L" or "R" for x0, a digit for top
XChars == <<"L", "R">>
TopChars == <<"0", "1", "3", "4">>
TopBase == 10
TopOffsets == <<0, 1, 3, 4>>
Word(xi, ti) ==
    [text |-> <<XChars[xi], TopChars[ti]>>,
     x0 |-> xi,
     top |-> TopBase + TopOffsets[ti],
     size |-> 8 + 2 * xi,
     fontname |-> IF xi = 1 THEN <<"T">> ELSE <<"T", "-", "B", "o", "l", "d">>]
Words == {Word(xi, ti) : xi \in 1..2, ti \in 1..4}

\* words.sort(key=lambda x: (x["top"], x["x0"])): a stable sort
KeyLeq(a, b) == a.top < b.top \/ (a.top = b.top /\ a.x0 <= b.x0)
RECURSIVE SortWords(_)
SortWords(ws) ==
    IF ws = <<>> THEN <<>>
    ELSE LET rest == SortWords(SubSeq(ws, 1, Len(ws) - 1))
             w == ws[Len(ws)]
             n == Cardinality({i \in 1..Len(rest) : KeyLeq(rest[i], w)})
         IN  SubSeq(rest, 1, n) \o <<w>> \o SubSeq(rest, n + 1, Len(rest))

Abs(n) == IF n < 0 THEN -n ELSE n
MinOf(S) == CHOOSE m \in S : \A k \in S : m <= k
RECURSIVE SumSize(_)
SumSize(ws) == IF ws = <<>> THEN 0 ELSE Head(ws).size + SumSize(Tail(ws))

\* " ".join(texts)
JoinSpace(texts) ==
    Concat([i \in 1..Len(texts) |->
               IF i = 1 THEN texts[i] ELSE <<"SP">> \o texts[i]])

\* process_line(words); size is the mean, kept as a fraction.  For no words
\* the mean divides by len(words) = 0 and raises.  (The cleaning of the
\* joined text by sanitize_text is not among the sources; the text is the
\* joined text.)
process_line(words) ==
    IF words = <<>> THEN [raised |-> "division by zero"]
    ELSE
    LET fonts == {words[i].fontname : i \in 1..Len(words)}
    IN  [text |-> JoinSpace([i \in 1..Len(words) |-> words[i].text]),
         x0 |-> MinOf({words[i].x0 : i \in 1..Len(words)}),
         top |-> MinOf({words[i].top : i \in 1..Len(words)}),
         size |-> [num |-> SumSize(words), den |-> Len(words)],
         bold |-> \E f \in fonts :
                      Contains(Lower(f), <<"b", "o", "l", "d">>),
         fonts |-> fonts]

\* a plausible slip: the top of the word before is the reference
RECURSIVE GroupLines_chained(_, _, _, _, _)
GroupLines_chained(words, current_line, last_top, lines, y_tolerance) ==
    IF words = <<>>
    THEN IF current_line # <<>> THEN Append(lines, process_line(current_line))
         ELSE lines
    ELSE LET word == Head(words)
         IN  IF Abs(word.top - last_top) > y_tolerance
             THEN GroupLines_chained(Tail(words), <<word>>, word.top,
                      Append(lines, process_line(current_line)), y_tolerance)
             ELSE GroupLines_chained(Tail(words), Append(current_line, word),
                      word.top, lines, y_tolerance)

\* the loop over the sorted words of a page, and the line left at its end
RECURSIVE GroupLines(_, _, _, _, _)
GroupLines(words, current_line, last_top, lines, y_tolerance) ==
    IF words = <<>>
    THEN IF current_line # <<>> THEN Append(lines, process_line(current_line))
         ELSE lines
    ELSE LET word == Head(words)
         IN  IF Abs(word.top - last_top) > y_tolerance
             THEN GroupLines(Tail(words), <<word>>, word.top,
                      Append(lines, process_line(current_line)), y_tolerance)
             ELSE GroupLines(Tail(words), Append(current_line, word),
                      last_top, lines, y_tolerance)

\* the body of the loop over the pages: page_data of page i; a line that
\* process_line could not build stands for the exception it raised
page_data(i, page_words, y_tolerance) ==
    LET words == SortWords(page_words)
    IN  [page_number |-> i,
         width |-> 612,
         height |-> 792,
         lines |-> IF words = <<>> THEN <<>>
                   ELSE GroupLines(words, <<>>, words[1].top, <<>>,
                                   y_tolerance)]

\* a plausible slip: the pages read so far are returned with the error
extract_rich_layout_partial(doc, y_tolerance) ==
    LET n == Len(doc.pages)
        pages == [i \in 1..n |-> page_data(i, doc.pages[i], y_tolerance)]
        bad == {i \in 1..n :
                   \/ i = doc.failAt
                   \/ \E k \in 1..Len(pages[i].lines) :
                          "raised" \in DOMAIN pages[i].lines[k]}
    IN  IF doc.failAt = 0 THEN [error |-> "open"]
        ELSE IF bad # {}
        THEN [error |-> IF MinOf(bad) = doc.failAt THEN "page"
                        ELSE "division by zero",
              pages |-> SubSeq(pages, 1, MinOf(bad) - 1)]
        ELSE [metadata |-> "metadata", pages |-> pages]

\* extract_rich_layout(pdf_path, x_tolerance, y_tolerance).  doc.failAt is
\* where pdfplumber raises: 0 when the file cannot be opened, k when the
\* words of page k cannot be extracted, more than the number of pages never.
\* Whatever is raised inside the `try`, by pdfplumber or by process_line, is
\* caught and returned as {"error": str(e)}; the first page that raises
\* decides the message.
extract_rich_layout(doc, y_tolerance) ==
    LET n == Len(doc.pages)
        pages == [i \in 1..n |-> page_data(i, doc.pages[i], y_tolerance)]
        bad == {i \in 1..n :
                   \/ i = doc.failAt
                   \/ \E k \in 1..Len(pages[i].lines) :
                          "raised" \in DOMAIN pages[i].lines[k]}
    IN  IF doc.failAt = 0 THEN [error |-> "open"]
        ELSE IF bad # {}
        THEN [error |-> IF MinOf(bad) = doc.failAt THEN "page"
                        ELSE "division by zero"]
        ELSE [metadata |-> "metadata", pages |-> pages]

\* ---- inputs of the geometry extraction: one page of at most MaxWords
\* words, or at most MaxPages pages of at most one word; every place the
\* reading can fail; three tolerances, the default among them and one below
\* zero (--y-tolerance takes any float)
MaxWords == 3
MaxPages == 2
DefaultTolerance == 3
Tolerances == {-1, 1, DefaultTolerance}
PagesOf(n) == SeqsUpTo(Words, n)
LayoutPageLists ==
    {<<p>> : p \in PagesOf(MaxWords)} \cup SeqsUpTo(PagesOf(1), MaxPages)
LayoutDocs ==
    {[pages |-> ps, failAt |-> f] :
        ps \in LayoutPageLists, f \in 0..(MaxPages + 1)}

LayoutInit ==
    /\ lDoc \in {d \in LayoutDocs : d.failAt <= Len(d.pages) + 1}
    /\ lTol \in Tolerances
    /\ lOut = <<>>

ExtractRichLayout ==
    /\ lOut = <<>>
    /\ lOut' = <<extract_rich_layout(lDoc, lTol)>>
    /\ UNCHANGED <<lDoc, lTol>>

InitLayout ==
    /\ LayoutInit
    /\ NormIdle /\ EscIdle /\ RenderIdle /\ AuditIdle
    /\ GuardIdle /\ CompileIdle /\ DocxIdle
    /\ TexIdle /\ AriIdle /\ ParIdle
NextLayout ==
    /\ ExtractRichLayout
    /\ UNCHANGED <<normVars, escVars, renderVars, auditVars,
                   guardVars, compileVars, docxVars,
                   texVars, ariVars, parVars>>
SpecLayout == InitLayout /\ [][NextLayout]_vars

\* ---- what the claims about the geometry speak of

IndexIn(seq, c) == CHOOSE i \in 1..Len(seq) : seq[i] = c

\* the places (x0, top) named by the words joined into a line's text
LineTokens(line) ==
    [j \in 1..((Len(line.text) + 1) \div 3) |->
        [x0 |-> IndexIn(XChars, line.text[3 * j - 2]),
         top |-> TopBase + TopOffsets[IndexIn(TopChars, line.text[3 * j - 1])]]]

Places(words) == [j \in 1..Len(words) |-> [x0 |-> words[j].x0, top |-> words[j].top]]

LayoutDone == lOut # <<>> /\ "pages" \in DOMAIN lOut[1]

\* C13: over a page's words sorted by (top, x0), a word starts a new line
\* if and only if its top differs from the top of the first word of the
\* current line by more than y_tolerance: the lines, one after the other,
\* are the sorted words, every word of a line is within y_tolerance of the
\* line's first word, and the first word of a line is further than
\* y_tolerance from the first word of the line before.
C13_LineGrouping ==
    LayoutDone =>
        \A i \in 1..Len(lOut[1].pages) :
            LET lines == lOut[1].pages[i].lines
                toks == [k \in 1..Len(lines) |-> LineTokens(lines[k])]
            IN  /\ Concat(toks) = Places(SortWords(lDoc.pages[i]))
                /\ \A k \in 1..Len(lines) :
                       /\ toks[k] # <<>>
                       /\ \A j \in 1..Len(toks[k]) :
                              Abs(toks[k][j].top - toks[k][1].top) <= lTol
                       /\ k > 1 =>
                              Abs(toks[k][1].top - toks[k - 1][1].top) > lTol

\* a line of two words with different tops, followed by a line whose first
\* word is within the tolerance of the last word of the line before
C13_Witness ==
    /\ LayoutDone
    /\ \E i \in 1..Len(lOut[1].pages) :
           LET lines == lOut[1].pages[i].lines
           IN  /\ Len(lines) = 2
               /\ LET a == LineTokens(lines[1])
                      b == LineTokens(lines[2])
                  IN  /\ Len(a) = 2 /\ a[1].top # a[2].top
                      /\ Abs(b[1].top - a[2].top) <= lTol

\* C14: pages come in their sequence with page_number = index + 1 (counted
\* from 0), the lines of a page in non-decreasing top order, and the words
\* joined into a line's text in non-decreasing x0 order.
C14_ReadingOrder ==
    LayoutDone =>
        /\ Len(lOut[1].pages) = Len(lDoc.pages)
        /\ \A i \in 1..Len(lOut[1].pages) :
               LET lines == lOut[1].pages[i].lines
               IN  /\ lOut[1].pages[i].page_number = i
                   /\ \A k \in 1..(Len(lines) - 1) :
                          lines[k].top <= lines[k + 1].top
                   /\ \A k \in 1..Len(lines) :
                          LET t == LineTokens(lines[k])
                          IN  \A j \in 1..(Len(t) - 1) : t[j].x0 <= t[j + 1].x0

\* ------------------------------------------------------------ compilation

\* the files of the job in work_dir: jobname.tex, jobname.pdf and the
\* auxiliary files
AuxFiles == {"log", "aux", "out"}
RendererFiles == AuxFiles \cup {"pdf"}

\* where compile_resume runs the renderer: inside the container, through
\* docker, or with no docker to be found; compile_latex runs it locally
Envs(which) ==
    IF which = "compile_latex" THEN {"local"}
    ELSE {"in_docker", "docker", "no_docker"}

NoExit == -1
ExitCodes == {0, 1}

CompileInit ==
    /\ cWhich \in {"compile_latex", "compile_resume"}
    /\ cEnv \in Envs(cWhich)
    /\ cLaunch \in {"ok", "raises"}
    /\ cHang \in BOOLEAN
    /\ cFiles \in SUBSET {"tex", "pdf", "log"}
    /\ cWritten = {} /\ cExit = NoExit /\ cPc = "start" /\ cRet = FALSE

\* compile_latex(tex_file_path) up to subprocess.run: the checks that
\* return False, the launch that raises, or the renderer started and
\* waited for
Start ==
    /\ cPc = "start"
    /\ IF \/ "tex" \notin cFiles
          \/ cEnv = "no_docker"
          \/ cLaunch = "raises"
       THEN cPc' = "returned" /\ cRet' = FALSE
       ELSE cPc' = "running" /\ cRet' = cRet
    /\ UNCHANGED <<cWhich, cEnv, cLaunch, cHang, cFiles, cWritten, cExit>>

\* the renderer writes one of its files
RendererWrite(f) ==
    /\ cPc = "running" /\ cExit = NoExit
    /\ f \notin cWritten
    /\ cFiles' = cFiles \cup {f}
    /\ cWritten' = cWritten \cup {f}
    /\ UNCHANGED <<cWhich, cEnv, cLaunch, cHang, cExit, cPc, cRet>>

\* the renderer exits, if it ever does
RendererExit(code) ==
    /\ cPc = "running" /\ cExit = NoExit
    /\ ~cHang
    /\ cExit' = code
    /\ UNCHANGED <<cWhich, cEnv, cLaunch, cHang, cFiles, cWritten, cPc, cRet>>

\* compile_latex after subprocess.run has returned: the return code, the
\* PDF, the removal of the auxiliary files
Finish ==
    /\ cPc = "running" /\ cExit # NoExit
    /\ IF cExit # 0 THEN cRet' = FALSE /\ cFiles' = cFiles
       ELSE IF "pdf" \in cFiles
       THEN cRet' = TRUE /\ cFiles' = cFiles \ AuxFiles
       ELSE cRet' = FALSE /\ cFiles' = cFiles
    /\ cPc' = "returned"
    /\ UNCHANGED <<cWhich, cEnv, cLaunch, cHang, cWritten, cExit>>

InitCompile ==
    /\ CompileInit
    /\ NormIdle /\ EscIdle /\ RenderIdle /\ AuditIdle
    /\ GuardIdle /\ LayoutIdle /\ DocxIdle
    /\ TexIdle /\ AriIdle /\ ParIdle
NextCompile ==
    /\ \/ Start
       \/ \E f \in RendererFiles : RendererWrite(f)
       \/ \E code \in ExitCodes : RendererExit(code)
       \/ Finish
    /\ UNCHANGED <<normVars, escVars, renderVars, auditVars,
                   guardVars, layoutVars, docxVars,
                   texVars, ariVars, parVars>>
SpecCompile == InitCompile /\ [][NextCompile]_vars

\* C15: after compile_latex has returned, on whatever path, none of the
\* auxiliary files (.log, .aux, .out) that the run created remains.
C15_AuxRemoved ==
    cPc = "returned" => (cWritten \cap AuxFiles) \cap cFiles = {}

\* C16: the rendering stage always terminates: as long as compile_latex has
\* not returned, a step is possible, also when the renderer never exits.
C16_Terminates == cPc = "returned" \/ ENABLED NextCompile

\* ------------------------------------------------------------ 4.2 DOCX

\* " TAB_MARKER ", the placeholder of a run that holds a tab
TabMarker ==
    <<"SP", "T", "A", "B", "_", "M", "A", "R", "K", "E", "R", "SP">>
\* '\\hfill ' as re.sub writes it
HFill ==
    <<"\\", "h", "f", "i", "l", "l", "SP">>

\* FONT_MAP.get(raw_name, "DejaVu Sans")
FontMapped(raw_name) ==
    CASE raw_name = "Garamond" -> "EB Garamond"
      [] raw_name = "Calibri" -> "Carlito"
      [] raw_name = "Arial" -> "Liberation Sans"
      [] raw_name = "Times New Roman" -> "Liberation Serif"
      [] OTHER -> "DejaVu Sans"
FontChars(font_name) ==
    CASE font_name = "EB Garamond" ->
          <<"E", "B", "SP", "G", "a", "r", "a", "m", "o", "n", "d">>
      [] font_name = "Liberation Sans" ->
          <<"L", "i", "b", "e", "r", "a", "t", "i", "o", "n", "SP", "S", "a",
            "n", "s">>
      [] font_name = "Liberation Serif" ->
          <<"L", "i", "b", "e", "r", "a", "t", "i", "o", "n", "SP", "S", "e",
            "r", "i", "f">>
      [] font_name = "Carlito" ->
          <<"C", "a", "r", "l", "i", "t", "o">>
      [] OTHER ->
          <<"D", "e", "j", "a", "V", "u", "SP", "S", "a", "n", "s">>

\* the runs of the model have no size of their own: size is 10, and
\* f"{size}" and f"{size*1.2}" are "10" and "12.0"
DefaultSize == <<"1", "0">>
DefaultLeading == <<"1", "2", ".", "0">>

Braced(s) == <<"{">> \o s \o <<"}">>
Command(name, arg) == <<"\\">> \o name \o Braced(arg)

\* a run: run.text, whether its element holds a w:tab, run.font.name
\* ("" for none) and the formatting flags
Run(text, bold) ==
    [tab |-> FALSE, text |-> text, name |-> "", bold |-> bold,
     italic |-> FALSE, underline |-> FALSE]
TabRun ==
    [tab |-> TRUE, text |-> <<"TAB">>, name |-> "", bold |-> FALSE,
     italic |-> FALSE, underline |-> FALSE]

\* get_run_latex(run, default_font); the escaper of docx_parser is the
\* character mapping alone
get_run_latex(run, default_font) ==
    IF run.tab THEN TabMarker
    ELSE LET content == MapReserved(run.text)
             raw_name == IF run.name # "" THEN run.name ELSE default_font
             font_name == FontMapped(raw_name)
             b == IF run.bold
                  THEN Command(<<"t", "e", "x", "t", "b", "f">>, content)
                  ELSE content
             i == IF run.italic
                  THEN Command(<<"t", "e", "x", "t", "i", "t">>, b)
                  ELSE b
             u == IF run.underline
                  THEN Command(<<"u", "n", "d", "e", "r", "l", "i", "n", "e">>, i)
                  ELSE i
         IN  IF content = <<>> THEN <<>>
             ELSE <<"{">>
                  \o Command(<<"f", "o", "n", "t", "s", "p", "e", "c">>,
                             FontChars(font_name))
                  \o Command(<<"f", "o", "n", "t", "s", "i", "z", "e">>,
                             DefaultSize)
                  \o Braced(DefaultLeading)
                  \o <<"\\", "s", "e", "l", "e", "c", "t", "f", "o", "n", "t",
                       "SP">>
                  \o u \o <<"}">>

\* how many copies of pat stand one after the other at position i of s
RECURSIVE Repeats(_, _, _)
Repeats(s, pat, i) ==
    IF i + Len(pat) - 1 <= Len(s) /\ SubSeq(s, i, i + Len(pat) - 1) = pat
    THEN 1 + Repeats(s, pat, i + Len(pat))
    ELSE 0

\* a plausible slip: every marker is replaced by its own directive
ConsolidateTabs_each(raw_tex) == Replace(raw_tex, TabMarker, HFill)

\* re.sub(r'( TAB_MARKER )+', r'\\hfill ', raw_tex)
RECURSIVE ConsolidateTabs(_)
ConsolidateTabs(raw_tex) ==
    LET hits == {i \in 1..Len(raw_tex) : Repeats(raw_tex, TabMarker, i) > 0}
    IN  IF hits = {} THEN raw_tex
        ELSE LET i == CHOOSE h \in hits : \A j \in hits : h <= j
                 n == Repeats(raw_tex, TabMarker, i) * Len(TabMarker)
             IN  SubSeq(raw_tex, 1, i - 1) \o HFill
                 \o ConsolidateTabs(SubSeq(raw_tex, i + n, Len(raw_tex)))

\* "".join(get_run_latex(run, "Garamond") for run in runs)
RunsLatex(runs) ==
    Concat([i \in 1..Len(runs) |-> get_run_latex(runs[i], "Garamond")])

\* para.text: the text of the runs
ParaText(runs) == Concat([i \in 1..Len(runs) |-> runs[i].text])

\* str.strip() leaves nothing
Blank(s) == \A i \in 1..Len(s) : s[i] \in WhiteSpace

\* a child of the body: a paragraph (its runs, w:numPr, the w:sz of its
\* bottom border, "" for none, and its alignment), a table (rows of cells of
\* runs) or another element (w:sectPr)
Para(runs, numPr, sz, center) ==
    [tag |-> "p", runs |-> runs, numPr |-> numPr, sz |-> sz,
     center |-> center, rows |-> <<>>]
Tbl(rows) ==
    [tag |-> "tbl", runs |-> <<>>, numPr |-> FALSE, sz |-> "",
     center |-> FALSE, rows |-> rows]
SectPr ==
    [tag |-> "sectPr", runs |-> <<>>, numPr |-> FALSE, sz |-> "",
     center |-> FALSE, rows |-> <<>>]

\* int(sz): the attribute values of the model
IsInt(sz) == sz \in {"4", "8"}
IntOf(sz) == IF sz = "4" THEN 4 ELSE 8

\* a plausible slip: the runs are not looked at
IsSpace_textOnly(runs) == Blank(ParaText(runs))

\* not para.text.strip() and not para.runs
IsSpace(runs) == Blank(ParaText(runs)) /\ runs = <<>>

\* int(sz) raises ValueError in the paragraph
Raises(item) ==
    /\ item.tag = "p"
    /\ ~IsSpace(item.runs)
    /\ item.sz # "" /\ ~IsInt(item.sz)

\* the block of one child of the body: <<block>>, <<>> for a child that is
\* neither a paragraph nor a table
SpaceHeight == 8
DefaultSpaceAfter == 2
block_of(item) ==
    IF item.tag = "p"
    THEN IF IsSpace(item.runs)
         THEN <<[type |-> "space", value |-> SpaceHeight]>>
         ELSE <<[type |-> "paragraph",
                 alignment |-> IF item.center THEN "center" ELSE "flushleft",
                 space_before |-> 0,
                 space_after |-> DefaultSpaceAfter,
                 left_indent |-> 0,
                 first_line_indent |-> 0,
                 is_list |-> item.numPr,
                 border_height |->
                     IF item.sz = "" THEN [num |-> 0, den |-> 1]
                     ELSE [num |-> IntOf(item.sz), den |-> 8],
                 rich_content |-> ConsolidateTabs(RunsLatex(item.runs))]>>
    ELSE IF item.tag = "tbl"
    THEN <<[type |-> "table",
            rows |-> [r \in 1..Len(item.rows) |->
                        [c \in 1..Len(item.rows[r]) |->
                            RunsLatex(item.rows[r][c])]]]>>
    ELSE <<>>

\* page_setup, in a document whose margins are one inch
PageSetup ==
    [margin_left |-> 72, margin_right |-> 72, margin_top |-> 72,
     margin_bottom |-> 72, primary_font |-> "EB Garamond"]

\* parse_docx_total_fidelity(docx_path)
parse_docx_total_fidelity(doc) ==
    IF ~doc.readable THEN [error |-> "Document"]
    ELSE IF \E i \in 1..Len(doc.body) : Raises(doc.body[i])
    THEN [error |-> "ValueError"]
    ELSE [page_setup |-> PageSetup,
          blocks |-> Concat([i \in 1..Len(doc.body) |->
                                block_of(doc.body[i])])]

\* ---- inputs of the DOCX extraction: one paragraph of at most MaxRuns
\* runs (a tab, an empty run, a blank run, plain and bold text, text that
\* spells the placeholder), or at most MaxBlocks children out of a few, in
\* a file that can or cannot be read
MaxRuns == 3
MaxBlocks == 3

DocxRuns ==
    { TabRun, Run(<<>>, FALSE), Run(<<"SP">>, FALSE), Run(<<"a">>, FALSE),
      Run(<<"&">>, TRUE), Run(TabMarker, FALSE) }

Children ==
    { Para(<<>>, FALSE, "", FALSE),
      Para(<<>>, FALSE, "x", FALSE),
      Para(<<Run(<<"SP">>, FALSE)>>, FALSE, "", FALSE),
      Para(<<Run(<<"a">>, FALSE)>>, TRUE, "8", TRUE),
      Para(<<Run(<<"a">>, FALSE)>>, FALSE, "x", FALSE),
      Tbl(<<<<<<TabRun, Run(<<"a">>, FALSE)>>, <<>>>>>>),
      SectPr }

Docs ==
    {[body |-> <<Para(rs, FALSE, "", FALSE)>>, readable |-> TRUE] :
        rs \in SeqsUpTo(DocxRuns, MaxRuns)}
    \cup {[body |-> b, readable |-> r] :
             b \in SeqsUpTo(Children, MaxBlocks), r \in BOOLEAN}

DocxInit == dDoc \in Docs /\ dOut = <<>>

ParseDocx ==
    /\ dOut = <<>>
    /\ dOut' = <<parse_docx_total_fidelity(dDoc)>>
    /\ UNCHANGED dDoc

InitDocx ==
    /\ DocxInit
    /\ NormIdle /\ EscIdle /\ RenderIdle /\ AuditIdle
    /\ GuardIdle /\ LayoutIdle /\ CompileIdle
    /\ TexIdle /\ AriIdle /\ ParIdle
NextDocx ==
    /\ ParseDocx
    /\ UNCHANGED <<normVars, escVars, renderVars, auditVars,
                   guardVars, layoutVars, compileVars,
                   texVars, ariVars, parVars>>
SpecDocx == InitDocx /\ [][NextDocx]_vars

\* both extraction stages, one of them called
InitExtract ==
    /\ \/ LayoutInit /\ DocxIdle
       \/ DocxInit /\ LayoutIdle
    /\ NormIdle /\ EscIdle /\ RenderIdle /\ AuditIdle
    /\ GuardIdle /\ CompileIdle
    /\ TexIdle /\ AriIdle /\ ParIdle
NextExtract ==
    /\ \/ lDoc # <<>> /\ ExtractRichLayout /\ UNCHANGED docxVars
       \/ dDoc # <<>> /\ ParseDocx /\ UNCHANGED layoutVars
    /\ UNCHANGED <<normVars, escVars, renderVars, auditVars,
                   guardVars, compileVars,
                   texVars, ariVars, parVars>>
SpecExtract == InitExtract /\ [][NextExtract]_vars

\* ---- what the claims about the extraction speak of

\* pdfplumber cannot read the file or a page, or the grouping raises
LayoutFails ==
    \/ lDoc.failAt <= Len(lDoc.pages)
    \/ lTol < 0 /\ \E i \in 1..Len(lDoc.pages) : lDoc.pages[i] # <<>>
DocxFails ==
    ~dDoc.readable \/ \E i \in 1..Len(dDoc.body) : Raises(dDoc.body[i])

\* the children of the body that are paragraphs or tables
IsBlockChild(item) == item.tag \in {"p", "tbl"}
BlockChildren == SelectSeq(dDoc.body, IsBlockChild)

DocxDone == dOut # <<>> /\ "blocks" \in DOMAIN dOut[1]

\* C17: whatever in the input cannot be read, each extraction stage returns
\* an object whose only key is 'error'; a result without 'error' is returned
\* only when everything was extracted, and it holds every page or block.
C17_ErrorOnly ==
    /\ lOut # <<>> =>
           IF LayoutFails THEN DOMAIN lOut[1] = {"error"}
           ELSE /\ "error" \notin DOMAIN lOut[1]
                /\ Len(lOut[1].pages) = Len(lDoc.pages)
    /\ dOut # <<>> =>
           IF DocxFails THEN DOMAIN dOut[1] = {"error"}
           ELSE /\ "error" \notin DOMAIN dOut[1]
                /\ Len(dOut[1].blocks) = Len(BlockChildren)

\* the input fails after a first page or block has been read
C17_Witness ==
    \/ /\ lOut # <<>> /\ lDoc.failAt = 2 /\ Len(lDoc.pages) = 2
       /\ "error" \in DOMAIN lOut[1]
    \/ /\ dOut # <<>> /\ dDoc.readable /\ Len(dDoc.body) = 2
       /\ ~Raises(dDoc.body[1]) /\ Raises(dDoc.body[2])
       /\ "error" \in DOMAIN dOut[1]

EmptyPara(item) == item.tag = "p" /\ Blank(ParaText(item.runs))

\* the blocks are, in order, one per paragraph or table child of the body
OnePerChild ==
    /\ Len(dOut[1].blocks) = Len(BlockChildren)
    /\ \A i \in 1..Len(BlockChildren) :
           IF BlockChildren[i].tag = "tbl"
           THEN dOut[1].blocks[i].type = "table"
           ELSE /\ dOut[1].blocks[i].type \in {"space", "paragraph"}
                /\ dOut[1].blocks[i].type = "paragraph" =>
                       dOut[1].blocks[i].is_list = BlockChildren[i].numPr

\* C18 (as claimed): a paragraph with no visible text and no runs is
\* emitted as a space block of height 8, an empty or whitespace-only
\* paragraph is never a paragraph block, and the blocks are one per
\* paragraph or table child, in order.
C18_EmptyNeverParagraph ==
    DocxDone =>
        /\ OnePerChild
        /\ \A i \in 1..Len(BlockChildren) :
               /\ (EmptyPara(BlockChildren[i]) /\ BlockChildren[i].runs = <<>>)
                      => dOut[1].blocks[i] = [type |-> "space", value |-> 8]
               /\ EmptyPara(BlockChildren[i])
                      => dOut[1].blocks[i].type # "paragraph"

\* C18 (amended): a paragraph with no visible text and no runs is emitted
\* as a space block of height 8 and never as a paragraph block; every
\* paragraph that has a run, an empty or blank one included, is emitted as
\* a paragraph block; the blocks are one per paragraph or table child, in
\* order.
C18_SpaceIffNoRuns ==
    DocxDone =>
        /\ OnePerChild
        /\ \A i \in 1..Len(BlockChildren) :
               BlockChildren[i].tag = "p" =>
                   IF BlockChildren[i].runs = <<>>
                   THEN dOut[1].blocks[i] = [type |-> "space", value |-> 8]
                   ELSE dOut[1].blocks[i].type = "paragraph"

\* an empty paragraph without runs, a blank paragraph with a run and a
\* table, all in one body
C18_Witness ==
    /\ DocxDone
    /\ \E i, j, k \in 1..Len(BlockChildren) :
           /\ EmptyPara(BlockChildren[i]) /\ BlockChildren[i].runs = <<>>
           /\ EmptyPara(BlockChildren[j]) /\ BlockChildren[j].runs # <<>>
           /\ BlockChildren[k].tag = "tbl"

\* the number of places where pat stands in s
Count(s, pat) ==
    Cardinality({i \in 1..(Len(s) - Len(pat) + 1) :
                    SubSeq(s, i, i + Len(pat) - 1) = pat})

\* the number of maximal groups of adjacent tab runs
TabGroups(runs) ==
    Cardinality({i \in 1..Len(runs) :
                    runs[i].tab /\ (i = 1 \/ ~runs[i - 1].tab)})

\* the runs that write something: the tab runs and the runs with text
Writes(run) == run.tab \/ run.text # <<>>

HFillCommand == SubSeq(HFill, 1, Len(HFill) - 1)
Placeholder == SubSeq(TabMarker, 2, Len(TabMarker) - 1)

\* C19 (as claimed): in a paragraph block's content, the number of \hfill
\* directives is the number of maximal groups of adjacent tab runs, and no
\* TAB_MARKER placeholder remains.
C19_OneFillPerGroup ==
    DocxDone =>
        \A i \in 1..Len(BlockChildren) :
            dOut[1].blocks[i].type = "paragraph" =>
                LET content == dOut[1].blocks[i].rich_content
                IN  /\ Count(content, HFillCommand)
                           = TabGroups(BlockChildren[i].runs)
                    /\ Count(content, Placeholder) = 0

\* C19 (amended): the groups are those of tab runs with nothing written
\* between them: runs with empty text, which write nothing, do not separate
\* two tab runs.
C19_OneFillPerWrittenGroup ==
    DocxDone =>
        \A i \in 1..Len(BlockChildren) :
            dOut[1].blocks[i].type = "paragraph" =>
                LET content == dOut[1].blocks[i].rich_content
                IN  /\ Count(content, HFillCommand)
                           = TabGroups(SelectSeq(BlockChildren[i].runs, Writes))
                    /\ Count(content, Placeholder) = 0

\* two adjacent tab runs and text, in a paragraph with one directive
C19_Witness ==
    /\ DocxDone
    /\ \E i \in 1..Len(BlockChildren) :
           /\ dOut[1].blocks[i].type = "paragraph"
           /\ Len(BlockChildren[i].runs) = 3
           /\ BlockChildren[i].runs[1].tab /\ BlockChildren[i].runs[2].tab
           /\ ~BlockChildren[i].runs[3].tab
           /\ Count(dOut[1].blocks[i].rich_content, HFillCommand) = 1

\* ---- the ligature table of the escaper

\* the five sequences of ligature_map and their entries
LigatureKeys ==
    << <<"f", "f">>, <<"f", "i">>, <<"f", "l">>,
       <<"f", "f", "i">>, <<"f", "f", "l">> >>
LigatureEntries ==
    << <<"f", "{", "f", "}">>, <<"f", "{", "i", "}">>, <<"f", "{", "l", "}">>,
       <<"f", "{", "f", "}", "{", "i", "}">>,
       <<"f", "{", "f", "}", "{", "l", "}">> >>

\* C20: reserved characters are escaped before ligatures are suppressed, so
\* a brace written by the suppression is never escaped, and each of the five
\* ligature sequences given to the escaper comes out as its table entry:
\* ff -> f{f}, fi -> f{i}, fl -> f{l}, ffi -> f{f}{i}, ffl -> f{f}{l}.
C20_LigatureTable ==
    (Len(eOut) >= 1 /\ eIn.t = "str") =>
        /\ (~Contains(eIn.s, <<"{">>) /\ ~Contains(eIn.s, <<"}">>)) =>
               /\ ~Contains(eOut[1].s, <<"\\", "{">>)
               /\ ~Contains(eOut[1].s, <<"\\", "}">>)
        /\ \A k \in 1..Len(LigatureKeys) :
               eIn.s = LigatureKeys[k] => eOut[1].s = LigatureEntries[k]

\* ------------------------------------------------- escaper: output shape

\* the argument of the k-th application of the escaper
EscArg(k) == IF k = 1 THEN eIn ELSE eOut[k - 1]

\* a brace of s at position i that no backslash precedes
OpenAt(s, i) == s[i] = "{" /\ (i = 1 \/ s[i - 1] # "\\")
CloseAt(s, i) == s[i] = "}" /\ (i = 1 \/ s[i - 1] # "\\")

\* the unescaped braces of s pair up: no prefix closes more than it opens,
\* and the whole of s closes as many as it opens
Balanced(s) ==
    LET opens(n) == Cardinality({i \in 1..n : OpenAt(s, i)})
        closes(n) == Cardinality({i \in 1..n : CloseAt(s, i)})
    IN  /\ \A n \in 1..Len(s) : closes(n) <= opens(n)
        /\ opens(Len(s)) = closes(Len(s))

\* one of the sequences of the mapping is written in s from position i on
SequenceAt(s, i) ==
    \E c \in Reserved :
        LET q == EscapeChar(c)
        IN  /\ i + Len(q) - 1 <= Len(s)
            /\ SubSeq(s, i, i + Len(q) - 1) = q

\* C21: every output of the escaper on a string is balanced (each brace
\* that no backslash precedes belongs to a matched pair), and every
\* backslash of the output begins one of the sequences of the mapping.
C21_Balanced ==
    \A k \in 1..Len(eOut) :
        EscArg(k).t = "str" =>
            /\ Balanced(eOut[k].s)
            /\ \A i \in 1..Len(eOut[k].s) :
                   eOut[k].s[i] = "\\" => SequenceAt(eOut[k].s, i)

\* C21 witness: a brace and a ligature pair have been escaped; the output
\* holds an escaped brace and a pair of braces of its own.
C21_Witness ==
    /\ Len(eOut) >= 1
    /\ eIn = PyStr(<<"{", "f", "i">>)
    /\ eOut[1] = PyStr(<<"\\", "{", "f", "{", "i", "}">>)

\* C22: on a string without a ligature pair, importer_engine.escape_latex
\* returns the concatenation, in order, of the mapped sequence of each
\* reserved character and of every other character itself; nothing written
\* for one character is escaped again.
C22_SinglePass ==
    \A k \in 1..Len(eOut) :
        (eWhich = "engine" /\ EscArg(k).t = "str"
           /\ ~HasLigaturePair(EscArg(k).s)) =>
            LET s == EscArg(k).s
            IN  eOut[k].s =
                    Concat([i \in 1..Len(s) |->
                              IF s[i] \in Reserved THEN EscapeChar(s[i])
                              ELSE <<s[i]>>])

\* C22 witness: a backslash followed by an ampersand has been escaped by the
\* importer's escaper; the backslash of each sequence stands as written.
C22_Witness ==
    /\ Len(eOut) >= 1
    /\ eWhich = "engine"
    /\ eIn = PyStr(<<"\\", "&">>)
    /\ eOut[1] = PyStr(EscapeChar("\\") \o <<"\\", "&">>)

\* C24: applied to a value that is not a string (an integer, None, a list),
\* either escaper returns that value.
C24_NonStringUnchanged ==
    \A k \in 1..Len(eOut) : eIn.t # "str" => eOut[k] = eIn

\* C24 witness: the integer 123 and a list have gone through each escaper.
C24_Witness ==
    /\ Len(eOut) >= 1
    /\ eIn \in {PyInt(123), PyList(<<PyStr(<<"&">>)>>)}
    /\ eOut[1] = eIn

\* C29: no output of either escaper on a string holds one of the adjacent
\* letter pairs ff, fi, fl.
C29_NoLigaturePair ==
    \A k \in 1..Len(eOut) :
        EscArg(k).t = "str" => ~HasLigaturePair(eOut[k].s)

\* C29 witness: the overlapping run fffl has been escaped to f{f}f{l}.
C29_Witness ==
    /\ Len(eOut) >= 1
    /\ eIn = PyStr(<<"f", "f", "f", "l">>)
    /\ eOut[1] = PyStr(<<"f", "{", "f", "}", "f", "{", "l", "}">>)

\* ------------------------------------------------- normalizer: contract

\* the forms of the bullet: the character, the markup token, and the bullet
\* of the normalizer's own test
BulletArtifacts == {<<"BULLET">>, TextBullet, MisencodedBullet}

\* the number of pipe characters of s
Pipes(s) == Cardinality({i \in 1..Len(s) : s[i] = "|"})

\* C23: the result of normalize holds no white space, is in lower case,
\* holds no bullet artifact, and keeps every literal pipe of the input;
\* normalize("Hello World") = "helloworld", normalize("Item | Value") =
\* "item|value"; "" and None give the empty string.
C23_NormalizeContract ==
    Len(nOut) >= 1 =>
        LET out == nOut[1]
        IN  /\ \A i \in 1..Len(out) : out[i] \notin WhiteSpace
            /\ out = Lower(out)
            /\ \A b \in BulletArtifacts : ~Contains(out, b)
            /\ nIn.t = "str" => Pipes(out) >= Pipes(nIn.s)
            /\ nIn = PyStr(<<"H", "e", "l", "l", "o", "SP", "W", "o", "r", "l", "d">>)
                 => out = <<"h", "e", "l", "l", "o", "w", "o", "r", "l", "d">>
            /\ nIn = PyStr(<<"I", "t", "e", "m", "SP", "|", "SP",
                             "V", "a", "l", "u", "e">>)
                 => out = <<"i", "t", "e", "m", "|", "v", "a", "l", "u", "e">>
            /\ nIn \in {PyNone, PyStr(<<>>)} => out = <<>>

\* C30: the two copies of the normalizer agree: on every input, what
\* fidelity_auditor.normalize returns is what lib.utils.normalize_text
\* returns.
C30_CopiesAgree ==
    \A k \in 1..Len(nOut) :
        LET arg == IF k = 1 THEN nIn ELSE PyStr(nOut[k - 1])
        IN  /\ nWhich = "auditor" => nOut[k] = normalize_text(arg)
            /\ nWhich = "utils" => nOut[k] = normalize(arg)

\* C30 witness: the auditor's copy has normalized a text with a ligature
\* code point and a capital; the shared copy gives the same string.
C30_Witness ==
    /\ Len(nOut) >= 1
    /\ nWhich = "auditor"
    /\ nIn = PyStr(<<"LIG_FI">> \o <<"H", "i">>)
    /\ nOut[1] = <<"f", "i", "h", "i">>
    /\ normalize_text(nIn) = <<"f", "i", "h", "i">>

\* ------------------------------------------------- geometry: partition

\* C27: when the words of every page have been extracted, the lines of a
\* page partition its words: the words joined into the lines emitted for the
\* page are, counted with repetition, the words of the page, each in one
\* line; no line is empty (process_line is never given zero words, so the
\* mean never divides by zero); a page without words has zero lines.
C27_Partition ==
    (lOut # <<>> /\ lDoc.failAt > Len(lDoc.pages)) =>
        /\ "pages" \in DOMAIN lOut[1]
        /\ Len(lOut[1].pages) = Len(lDoc.pages)
        /\ \A i \in 1..Len(lDoc.pages) :
               LET lines == lOut[1].pages[i].lines
                   toks == [k \in 1..Len(lines) |-> LineTokens(lines[k])]
               IN  /\ Concat(toks) = Places(SortWords(lDoc.pages[i]))
                   /\ \A k \in 1..Len(lines) : toks[k] # <<>>
                   /\ lDoc.pages[i] = <<>> => lines = <<>>

\* ------------------------------------------------ tex_renderer.run_engine

\* the keywords that make a data path a dossier's
DossierKeywords ==
    { <<"S", "t", "r", "a", "t", "e", "g", "y", "_", "D", "o", "s", "s",
      "i", "e", "r">>,
      <<"S", "t", "r", "a", "t", "e", "g", "y", "_", "R", "e", "p", "o",
      "r", "t">>,
      <<"C", "o", "m", "p", "a", "n", "y", "_", "R", "e", "s", "e", "a",
      "r", "c", "h">> }

\* required_keys and list_keys of validate_dossier_schema
required_keys ==
    <<"company", "location", "candidate_name", "date", "executive_summary",
      "local_mission_portfolio", "enterprise_bi", "strategic_context",
      "technical_stack_dna", "strategic_fit", "sources">>
list_keys ==
    <<"local_mission_portfolio", "enterprise_bi", "strategic_context",
      "technical_stack_dna", "strategic_fit">>

\* ai_safety.validate_dossier_schema(data): (is_valid, error); the first key
\* that fails decides the error
validate_dossier_schema(data) ==
    LET missing == {i \in 1..Len(required_keys) :
                       required_keys[i] \notin DOMAIN data.f}
        notList(i) == data.f[list_keys[i]].t # "list"
        badItem(i) ==
            LET xs == data.f[list_keys[i]].xs
            IN  \E j \in 1..Len(xs) :
                    \/ xs[j].t # "dict"
                    \/ "label" \notin DOMAIN xs[j].f
                    \/ "text" \notin DOMAIN xs[j].f
        bad == {i \in 1..Len(list_keys) : notList(i) \/ badItem(i)}
    IN  IF missing # {}
        THEN [is_valid |-> FALSE,
              error |-> <<"missing", required_keys[MinOf(missing)]>>]
        ELSE IF bad # {}
        THEN [is_valid |-> FALSE,
              error |-> <<IF notList(MinOf(bad)) THEN "not a list"
                          ELSE "invalid object", list_keys[MinOf(bad)]>>]
        ELSE [is_valid |-> TRUE, error |-> <<>>]

\* any(keyword in str(data_p) for keyword in [...])
DossierNamed(p) == \E k \in DossierKeywords : Contains(PathStr(p), k)

\* ---- inputs of run_engine: a dossier that is valid, dossiers that lack a
\* key or hold a section that is not a list of {label, text} objects, and a
\* resume, bare and wrapped
DossierKeys == {required_keys[i] : i \in 1..Len(required_keys)}
ListKeys == {list_keys[i] : i \in 1..Len(list_keys)}
GoodItem == PyDict([k \in {"label", "text"} |-> PyStr(<<"x">>)])
ValidDossier ==
    PyDict([k \in DossierKeys |->
               IF k \in ListKeys THEN PyList(<<GoodItem>>) ELSE PyStr(<<"x">>)])
BadSections ==
    { PyStr(<<"x">>), PyList(<<PyStr(<<"x">>)>>),
      PyList(<<GoodItem, PyDict([k \in {"label"} |-> PyStr(<<"x">>)])>>) }
TexResume == PyDict([k \in {"name"} |-> PyStr(<<"A", "&", "B">>)])
TexData ==
    {ValidDossier, TexResume, PyDict([k \in {"resume"} |-> TexResume])}
    \cup {PyDict([j \in DossierKeys \ {k} |-> ValidDossier.f[j]]) :
             k \in DossierKeys}
    \cup {PyDict([j \in DossierKeys |->
                     IF j = k THEN v ELSE ValidDossier.f[j]]) :
             k \in ListKeys, v \in BadSections \cup {PyList(<<>>)}}

TexPaths ==
    { [abs |-> FALSE, parts |-> <<"data", "json", "f">>],
      [abs |-> FALSE, parts |-> <<"data", "json", "Strategy_Dossier">>],
      [abs |-> FALSE, parts |-> <<"data", "json", "masters">>],
      [abs |-> FALSE, parts |-> <<"..", "ari2", "f">>],
      [abs |-> FALSE, parts |-> <<"..", "etc", "f">>],
      [abs |-> TRUE, parts |-> <<"etc", "f">>] }

TexTemplate == <<Lit(<<"x", "=">>), Var(<<"name">>, TRUE)>>
OldText == <<"o", "l", "d">>

TexInit ==
    /\ tPath \in TexPaths
    /\ tData \in TexData
    /\ tTemplate \in {<<>>, <<TexTemplate>>}
    /\ tOld \in {<<>>, <<OldText>>}
    /\ tOutFile = tOld
    /\ tPc = "start" /\ tTrace = <<>> /\ tRaised = "" /\ tExit = -1

\* data_p = validate_master_path(data_path)
ValidateData ==
    /\ tPc = "start"
    /\ LET r == validate_master_path(tPath)
       IN  IF r.raised # ""
           THEN /\ tRaised' = r.raised /\ tPc' = "done"
                /\ tTrace' = Append(tTrace, "rejected")
           ELSE /\ tRaised' = tRaised /\ tPc' = "validated"
                /\ tTrace' = Append(tTrace, "accepted")
    /\ UNCHANGED <<tPath, tData, tTemplate, tOld, tOutFile, tExit>>

\* with open(data_p, 'r') as f: data = json.load(f)
OpenData ==
    /\ tPc = "validated"
    /\ LET err == OpenJson(Resolve(tPath))
       IN  /\ tRaised' = err
           /\ tPc' = IF err = "" THEN "loaded" ELSE "done"
    /\ tTrace' = Append(tTrace, "open")
    /\ UNCHANGED <<tPath, tData, tTemplate, tOld, tOutFile, tExit>>

\* a plausible slip: the schema error is printed and the run goes on
CheckDossier_reportOnly ==
    /\ tPc = "loaded"
    /\ tPc' = "checked"
    /\ tTrace' = IF DossierNamed(Resolve(tPath))
                 THEN Append(tTrace, "schema")
                 ELSE tTrace
    /\ UNCHANGED <<tPath, tData, tTemplate, tOld, tOutFile, tRaised, tExit>>

\* the schema check of a data path that names a dossier, and sys.exit(1)
CheckDossier ==
    /\ tPc = "loaded"
    /\ IF DossierNamed(Resolve(tPath))
       THEN /\ tTrace' = Append(tTrace, "schema")
            /\ IF validate_dossier_schema(tData).is_valid
               THEN tPc' = "checked" /\ tExit' = tExit
               ELSE tPc' = "done" /\ tExit' = 1
       ELSE tPc' = "checked" /\ tExit' = tExit /\ tTrace' = tTrace
    /\ UNCHANGED <<tPath, tData, tTemplate, tOld, tOutFile, tRaised>>

\* env.get_template(...) and template.render(resume=data)
RenderTemplate ==
    /\ tPc = "checked"
    /\ IF tTemplate = <<>>
       THEN /\ tRaised' = "TemplateNotFound" /\ tPc' = "done"
            /\ tTrace' = tTrace
       ELSE /\ tRaised' = tRaised /\ tPc' = "rendered"
            /\ tTrace' = Append(tTrace, "render")
    /\ UNCHANGED <<tPath, tData, tTemplate, tOld, tOutFile, tExit>>

\* with open(output_path, 'w') as f: f.write(rendered)
WriteOutput ==
    /\ tPc = "rendered"
    /\ tOutFile' = <<run_engine(tData, tTemplate[1], "tex").rendered>>
    /\ tTrace' = Append(tTrace, "write")
    /\ tPc' = "done"
    /\ UNCHANGED <<tPath, tData, tTemplate, tOld, tRaised, tExit>>

InitTex ==
    /\ TexInit
    /\ NormIdle /\ EscIdle /\ RenderIdle /\ AuditIdle
    /\ GuardIdle /\ LayoutIdle /\ CompileIdle /\ DocxIdle
    /\ AriIdle /\ ParIdle
NextTex ==
    /\ \/ ValidateData
       \/ OpenData
       \/ CheckDossier
       \/ RenderTemplate
       \/ WriteOutput
    /\ UNCHANGED <<normVars, escVars, renderVars, auditVars,
                   guardVars, layoutVars, compileVars, docxVars,
                   ariVars, parVars>>
SpecTex == InitTex /\ [][NextTex]_vars

\* the event e is in the trace
Did(e) == \E i \in 1..Len(tTrace) : tTrace[i] = e

\* C26: in run_engine the data file is opened only after
\* validate_master_path has accepted the path; when that validation raises,
\* or when the data of a dossier-named path fails validate_dossier_schema
\* (which ends the run with exit code 1), the template is never rendered and
\* the output file is as it was before the run.
C26_ChecksBeforeEffects ==
    /\ \A i \in 1..Len(tTrace) :
           tTrace[i] = "open" => \E j \in 1..(i - 1) : tTrace[j] = "accepted"
    /\ (Did("schema") /\ ~validate_dossier_schema(tData).is_valid)
           => tPc = "done" /\ tExit = 1
    /\ (Did("rejected") \/ tExit = 1) =>
           /\ ~Did("render") /\ ~Did("write")
           /\ tOutFile = tOld

\* C26 witness: a dossier that lacks a key has been read from an accepted
\* dossier path and refused, with an output file in place.
C26_Witness ==
    /\ tPc = "done" /\ tExit = 1
    /\ tTrace = <<"accepted", "open", "schema">>
    /\ tOld = <<OldText>> /\ tOutFile = <<OldText>>

\* ------------------------------------------------------------ ari.run_ari

\* An argument is a string; a name of the allowlist is written as one
\* element (none of them holds ".." or begins with "/etc" or "/var").
ALLOWLIST ==
    { <<"tools/tex_renderer.py">>, <<"tools/compile_latex.py">>,
      <<"tools/pdf_parser.py">>, <<"tools/docx_parser.py">>,
      <<"tools/fidelity_auditor.py">>, <<"tools/job_discovery.py">>,
      <<"tools/setup.py">>, <<"-m">>, <<"pytest">>, <<"bandit">>,
      <<"semgrep">>, <<"id">>, <<"/usr/local/bin/semgrep">> }

\* target = args[1] if is_module_call else executable
Target(args) ==
    IF args[1] = <<"-m">> /\ Len(args) > 1 THEN args[2] ELSE args[1]

\* ".." in arg or arg.startswith("/etc") or arg.startswith("/var")
Traversal(arg) ==
    \/ Contains(arg, <<".", ".">>)
    \/ StartsWith(arg, <<"/", "e", "t", "c">>)
    \/ StartsWith(arg, <<"/", "v", "a", "r">>)

\* ---- inputs of run_ari: at most MaxArgs arguments, each a tool of the
\* allowlist, the module switch, a module, a program that is not on the
\* list, or a path that goes up or into /etc or /var
MaxArgs == 3
ArgWords ==
    { <<"tools/pdf_parser.py">>, <<"-m">>, <<"pytest">>, <<"rm">>,
      <<".", ".", "/", "x">>, <<"/", "e", "t", "c", "/", "p">>,
      <<"/", "v", "a", "r">> }

\* the return codes of the container, when docker run returns one
RunCodes == {0, 2}

AriInit ==
    /\ iArgs \in SeqsUpTo(ArgWords, MaxArgs)
    /\ iPc = "start" /\ iTrace = <<>> /\ iLogged = <<>> /\ iExit = -1

\* docker_bin = shutil.which("docker"), or exit 1
FindDocker ==
    /\ iPc = "start"
    /\ \E found \in BOOLEAN :
           IF found THEN iPc' = "found" /\ iExit' = iExit
           ELSE iPc' = "exited" /\ iExit' = 1
    /\ UNCHANGED <<iArgs, iTrace, iLogged>>

\* subprocess.run([docker_bin, "--version"], check=True), or exit 1
CheckDocker ==
    /\ iPc = "found"
    /\ \E answer \in {"ok", "fails", "not found"} :
           /\ iTrace' = IF answer = "not found" THEN iTrace
                        ELSE Append(iTrace, "docker --version")
           /\ IF answer = "ok" THEN iPc' = "responding" /\ iExit' = iExit
              ELSE iPc' = "exited" /\ iExit' = 1
    /\ UNCHANGED <<iArgs, iLogged>>

\* subprocess.run([docker_bin, "images", "-q", image_name])
CheckImage ==
    /\ iPc = "responding"
    /\ iTrace' = Append(iTrace, "docker images")
    /\ \E present \in BOOLEAN :
           iPc' = IF present THEN "ready" ELSE "building"
    /\ UNCHANGED <<iArgs, iLogged, iExit>>

\* subprocess.run([docker_bin, "build", ...], check=True), or exit 1
BuildImage ==
    /\ iPc = "building"
    /\ iTrace' = Append(iTrace, "docker build")
    /\ \E built \in BOOLEAN :
           IF built THEN iPc' = "ready" /\ iExit' = iExit
           ELSE iPc' = "exited" /\ iExit' = 1
    /\ UNCHANGED <<iArgs, iLogged>>

\* PHASE 1: the usage test, the allowlist check of the target and the
\* traversal check of every argument; each failure exits with 1
ValidateArgs ==
    /\ iPc = "ready"
    /\ IF iArgs = <<>>
       THEN iPc' = "exited" /\ iExit' = 1 /\ iTrace' = iTrace
       ELSE IF Target(iArgs) \notin ALLOWLIST
       THEN iPc' = "exited" /\ iExit' = 1 /\ iTrace' = iTrace
       ELSE IF \E i \in 1..Len(iArgs) : Traversal(iArgs[i])
       THEN /\ iPc' = "exited" /\ iExit' = 1
            /\ iTrace' = Append(iTrace, "allowlist")
       ELSE /\ iPc' = "approved" /\ iExit' = iExit
            /\ iTrace' = iTrace \o <<"allowlist", "traversal">>
    /\ UNCHANGED <<iArgs, iLogged>>

\* subprocess.run(docker_cmd), log_security_event(target, args, code) and
\* sys.exit(code); when the run raises, the event is logged with code 1
RunContainer ==
    /\ iPc = "approved"
    /\ iTrace' = Append(iTrace, "docker run")
    /\ \E raises \in BOOLEAN, returncode \in RunCodes :
           LET code == IF raises THEN 1 ELSE returncode
           IN  /\ iLogged' = Append(iLogged,
                                 [tool |-> Target(iArgs), args |-> iArgs,
                                  exit_code |-> code])
               /\ iExit' = code
    /\ iPc' = "exited"
    /\ UNCHANGED iArgs

InitAri ==
    /\ AriInit
    /\ NormIdle /\ EscIdle /\ RenderIdle /\ AuditIdle
    /\ GuardIdle /\ LayoutIdle /\ CompileIdle /\ DocxIdle
    /\ TexIdle /\ ParIdle
NextAri ==
    /\ \/ FindDocker
       \/ CheckDocker
       \/ CheckImage
       \/ BuildImage
       \/ ValidateArgs
       \/ RunContainer
    /\ UNCHANGED <<normVars, escVars, renderVars, auditVars,
                   guardVars, layoutVars, compileVars, docxVars,
                   texVars, parVars>>
SpecAri == InitAri /\ [][NextAri]_vars

\* the commands run_ari starts
DockerCommands ==
    {"docker --version", "docker images", "docker build", "docker run"}

\* the request is one the checks refuse
Rejected ==
    /\ iArgs # <<>>
    /\ \/ Target(iArgs) \notin ALLOWLIST
       \/ \E i \in 1..Len(iArgs) : Traversal(iArgs[i])

\* C28: the container command is launched only after the target has passed
\* the allowlist check and every argument the traversal check; a rejected
\* request exits with code 1 and has launched nothing; an event is logged
\* for every launched container command and for no rejected request.
C28_LaunchAfterChecks ==
    /\ \A i \in 1..Len(iTrace) :
           iTrace[i] = "docker run" =>
               /\ ~Rejected
               /\ \E j \in 1..(i - 1) : iTrace[j] = "allowlist"
               /\ \E j \in 1..(i - 1) : iTrace[j] = "traversal"
    /\ (iPc = "exited" /\ Rejected) =>
           /\ iExit = 1
           /\ \A i \in 1..Len(iTrace) : iTrace[i] \notin DockerCommands
           /\ iLogged = <<>>
    /\ iPc = "exited" =>
           Len(iLogged) =
               Cardinality({i \in 1..Len(iTrace) : iTrace[i] = "docker run"})

\* ------------------------------------------- two compile_latex runs at once

\* The directories and the job names (tex_path.stem) of the runs: a.tex has
\* the job name "a", a.log.tex the job name "a.log".
Dirs == {"d1", "d2"}
Jobs == {<<"a">>, <<"a", ".", "log">>}
Runs == {1, 2}

\* a plausible slip: the job name is cut at the first dot of the file name
JobFile_firstDot(j, ext) == [dir |-> j.dir, name |-> <<j.job[1], ".", ext>>]

\* work_dir / f"{jobname}.{ext}", for the job j = [dir, job]
JobFile(j, ext) == [dir |-> j.dir, name |-> j.job \o <<".", ext>>]

\* the renderer writes the files of its job one after the other, and may
\* exit before it has written them all
RendererOrder == <<"log", "aux", "out", "pdf">>
\* for ext in ['.log', '.aux', '.out']
CleanupOrder == <<"log", "aux", "out">>

\* the state of a run before it has done anything
Fresh ==
    [pc |-> "start", written |-> 0, exit |-> -1, idx |-> 1, ret |-> "",
     touched |-> {}]

\* Two runs, the first on d1/a.tex, the second on any .tex file of the
\* model (the same one included); both .tex files exist, and a PDF of the
\* first job or an .aux file of the second may be left from an earlier run.
ParInit ==
    /\ pJob \in {<<[dir |-> "d1", job |-> <<"a">>], j>> :
                    j \in [dir : Dirs, job : Jobs]}
    /\ \E stale \in SUBSET {JobFile(pJob[1], "pdf"), JobFile(pJob[2], "aux")} :
           pFiles0 = {JobFile(pJob[r], "tex") : r \in Runs} \cup stale
    /\ pFiles = pFiles0
    /\ pRun = [r \in Runs |-> Fresh]

\* the run r takes the step that leaves it in the state s, with the file
\* system fs, having accessed the files fs_touched
Step(r, s, fs, fs_touched) ==
    /\ pRun' = [pRun EXCEPT
                   ![r] = [s EXCEPT !.touched = pRun[r].touched \cup fs_touched]]
    /\ pFiles' = fs
    /\ UNCHANGED <<pJob, pFiles0>>

\* compile_latex up to subprocess.run: the .tex file must exist
ParStart(r) ==
    /\ pRun[r].pc = "start"
    /\ LET tex == JobFile(pJob[r], "tex")
       IN  IF tex \in pFiles
           THEN Step(r, [pRun[r] EXCEPT !.pc = "running"], pFiles, {tex})
           ELSE Step(r, [pRun[r] EXCEPT !.pc = "returned", !.ret = "False"],
                     pFiles, {tex})

\* the renderer of run r writes (creates or overwrites) its next file
ParRendererWrite(r) ==
    /\ pRun[r].pc = "running" /\ pRun[r].exit = -1
    /\ pRun[r].written < Len(RendererOrder)
    /\ LET f == JobFile(pJob[r], RendererOrder[pRun[r].written + 1])
       IN  Step(r, [pRun[r] EXCEPT !.written = @ + 1], pFiles \cup {f}, {f})

\* the renderer of run r exits
ParRendererExit(r, code) ==
    /\ pRun[r].pc = "running" /\ pRun[r].exit = -1
    /\ Step(r, [pRun[r] EXCEPT !.exit = code], pFiles, {})

\* result.returncode != 0, and pdf_file.exists()
ParCheckResult(r) ==
    /\ pRun[r].pc = "running" /\ pRun[r].exit # -1
    /\ LET pdf == JobFile(pJob[r], "pdf")
       IN  IF pRun[r].exit # 0
           THEN Step(r, [pRun[r] EXCEPT !.pc = "returned", !.ret = "False"],
                     pFiles, {})
           ELSE IF pdf \in pFiles
           THEN Step(r, [pRun[r] EXCEPT !.pc = "exists"], pFiles, {pdf})
           ELSE Step(r, [pRun[r] EXCEPT !.pc = "returned", !.ret = "False"],
                     pFiles, {pdf})

\* where the cleanup loop stands after the file at idx has been dealt with
AfterAux(s) ==
    IF s.idx < Len(CleanupOrder)
    THEN [s EXCEPT !.pc = "exists", !.idx = @ + 1]
    ELSE [s EXCEPT !.pc = "returned", !.ret = "True"]

\* if aux_file.exists()
ParAuxExists(r) ==
    /\ pRun[r].pc = "exists"
    /\ LET f == JobFile(pJob[r], CleanupOrder[pRun[r].idx])
       IN  IF f \in pFiles
           THEN Step(r, [pRun[r] EXCEPT !.pc = "unlink"], pFiles, {f})
           ELSE Step(r, AfterAux(pRun[r]), pFiles, {f})

\* aux_file.unlink(); a file that is no longer there raises
ParAuxUnlink(r) ==
    /\ pRun[r].pc = "unlink"
    /\ LET f == JobFile(pJob[r], CleanupOrder[pRun[r].idx])
       IN  IF f \in pFiles
           THEN Step(r, AfterAux(pRun[r]), pFiles \ {f}, {f})
           ELSE Step(r, [pRun[r] EXCEPT !.pc = "returned",
                                        !.ret = "FileNotFoundError"],
                     pFiles, {f})

InitPar ==
    /\ ParInit
    /\ NormIdle /\ EscIdle /\ RenderIdle /\ AuditIdle
    /\ GuardIdle /\ LayoutIdle /\ CompileIdle /\ DocxIdle
    /\ TexIdle /\ AriIdle
NextPar ==
    /\ \E r \in Runs :
           \/ ParStart(r)
           \/ ParRendererWrite(r)
           \/ \E code \in ExitCodes : ParRendererExit(r, code)
           \/ ParCheckResult(r)
           \/ ParAuxExists(r)
           \/ ParAuxUnlink(r)
    /\ UNCHANGED <<normVars, escVars, renderVars, auditVars,
                   guardVars, layoutVars, compileVars, docxVars,
                   texVars, ariVars>>
SpecPar == InitPar /\ [][NextPar]_vars

\* the PDF and the auxiliary files of run r
OutputsOf(r) == {JobFile(pJob[r], ext) : ext \in RendererFiles}

\* what run r returns when it runs alone: True exactly when its renderer
\* exits with 0 and the job's PDF is there, written by it or left before
Alone(r) ==
    IF /\ pRun[r].exit = 0
       /\ \/ JobFile(pJob[r], "pdf") \in pFiles0
          \/ pRun[r].written = Len(RendererOrder)
    THEN "True" ELSE "False"

\* C25: two compile_latex runs on .tex files with distinct (directory, job
\* name) pairs, in any interleaving: neither run nor its renderer reads,
\* writes or deletes the PDF or an auxiliary file of the other, and each run
\* returns what it returns alone.
C25_NoInterference ==
    pJob # <<>> /\ pJob[1] # pJob[2] =>
        \A r \in Runs :
            /\ pRun[r].touched \cap OutputsOf(3 - r) = {}
            /\ pRun[r].pc = "returned" => pRun[r].ret = Alone(r)

\* C25 witness: two runs in one directory, on a.tex and a.log.tex, have both
\* written all their files and returned True; a.log of the first is removed
\* and a.log.pdf of the second is there.
C25_Witness ==
    /\ pJob = <<[dir |-> "d1", job |-> <<"a">>],
                [dir |-> "d1", job |-> <<"a", ".", "log">>]>>
    /\ \A r \in Runs : pRun[r].pc = "returned" /\ pRun[r].ret = "True"
    /\ \A r \in Runs : pRun[r].written = Len(RendererOrder)
    /\ JobFile(pJob[1], "log") \notin pFiles
    /\ JobFile(pJob[2], "pdf") \in pFiles

====
